---- MODULE Spec2Model ----
(***************************************************************************)
(* Budget_Calc: merchant normalisation, category resolution, checking      *)
(* classification, the credit/checking batch run of Yearly_Spending.main   *)
(* and the consecutive-run scan of recurring.py.                           *)
(*                                                                         *)
(* Text is modelled with TLA+ strings; Len, SubSeq, Head, Tail and \o      *)
(* take them apart character by character, so that upper-casing,           *)
(* substring tests, splitting and title-casing are computed, not assumed.  *)
(***************************************************************************)
EXTENDS Integers, Sequences, FiniteSets, TLC

VARIABLES
    description,      \* argument of clean_merchant_name / classify_checking_transaction
    amount,           \* raw Amount argument of classify_checking_transaction
    row,              \* argument of map_category: Clean_Description, Category
    category_map,     \* override table: argument of map_category, local of main
    month_numbers,    \* argument of _get_longest_consecutive_run
    ret,              \* value returned by the function that was called
    pc,               \* position: "call"/"done" of a single call; the step main is at
    credit_csv,       \* rows of the credit-card statement files under Data/
    checking_csv,     \* rows of the checking statement files under Data/Checking/
    MAPPINGS_FILE,    \* category_mappings.csv: whether it exists, its rows in order
    raw_df,           \* main: the loaded credit-card rows
    checking_df,      \* main: the loaded checking rows
    df_spending,      \* main: credit-card spending stream
    df_payments,      \* main: credit-card payment stream
    ck_income,        \* main: income stream
    ck_expense,       \* main: checking-expense stream
    frame,            \* argument df of the recurring.py functions and of add_tx_keys
    amount_tolerance,         \* argument of the recurring.py functions, in cents
    min_consecutive_months,   \* argument of detect_recurring_merchants
    kwargs,           \* further keyword arguments of the call, by name
    notes_df,         \* argument of save_notes
    NOTES_FILE,       \* transaction_notes.csv: whether it exists, its rows in order
    df_trans,         \* dashboard: the transactions it loaded, overlay applied
    mappings_dict,    \* dashboard: the override table it loaded
    new_mappings_df,  \* dashboard: the rows of the last Save Mappings
    hand_edits,       \* history: how often category_mappings.csv was edited by hand
    tmp_file,         \* transaction_notes.csv.tmp: whether it exists, the rows written so far
    exports           \* main: the CSV files written to Data/ and the count it prints

fnVars == <<description, amount, row, month_numbers, ret>>

batchVars ==
    <<credit_csv, checking_csv, MAPPINGS_FILE, raw_df, checking_df,
      df_spending, df_payments, ck_income, ck_expense>>

extVars ==
    <<frame, amount_tolerance, min_consecutive_months, kwargs, notes_df, NOTES_FILE,
      df_trans, mappings_dict, new_mappings_df, hand_edits, tmp_file, exports>>

vars == <<fnVars, category_map, pc, batchVars, extVars>>

-----------------------------------------------------------------------------
(* Bounds of the model.                                                    *)

\* number of fragments a raw description is assembled from
MaxFrags == 3

\* number of fragments a canonical merchant name is assembled from
MaxNameFrags == 2

\* raw amounts range over -MaxAmount..MaxAmount
MaxAmount == 2

\* number of statement rows (credit-card and checking together) of a batch run
MaxRows == 2

\* ret before the call returned
NoValue == "<unset>"

\* what a call gives back: the value returned, or the exception raised
Returned(v) == [raised |-> "", value |-> v]
Raised(e) == [raised |-> e, value |-> {}]

\* MAPPINGS_FILE while category_mappings.csv does not exist, and a file
\* holding the given rows
NoFile == [exists |-> FALSE, rows |-> << >>]
File(rows) == [exists |-> TRUE, rows |-> rows]

\* exports before main wrote any file: no {year}_All_Transactions.csv, no
\* all_transactions.csv, no count printed
NoExports == [yearly |-> << >>, combined |-> NoFile, defaulted |-> 0]

-----------------------------------------------------------------------------
(* Characters and the string primitives of Python that the code uses.      *)

Lowers == "abcdefghijklmnopqrstuvwxyz"
Uppers == "ABCDEFGHIJKLMNOPQRSTUVWXYZ"

CharAt(s, i) == SubSeq(s, i, i)

LowerSet == {CharAt(Lowers, i) : i \in 1..Len(Lowers)}
UpperSet == {CharAt(Uppers, i) : i \in 1..Len(Uppers)}

\* str.upper / str.lower on one character
ToUpper == [c \in LowerSet |-> CharAt(Uppers, CHOOSE i \in 1..Len(Lowers) : CharAt(Lowers, i) = c)]
ToLower == [c \in UpperSet |-> CharAt(Lowers, CHOOSE i \in 1..Len(Uppers) : CharAt(Uppers, i) = c)]

UpperChar(c) == IF c \in LowerSet THEN ToUpper[c] ELSE c
LowerChar(c) == IF c \in UpperSet THEN ToLower[c] ELSE c

\* a cased character in the sense of str.title
IsCased(c) == c \in LowerSet \/ c \in UpperSet

\* what str.split() and the regex class \s treat as white space
IsSpace(c) == c \in {" ", "\t"}

RECURSIVE Upper(_)
Upper(s) == IF s = "" THEN "" ELSE UpperChar(Head(s)) \o Upper(Tail(s))

RECURSIVE Lower(_)
Lower(s) == IF s = "" THEN "" ELSE LowerChar(Head(s)) \o Lower(Tail(s))

\* s.startswith(p) at offset i (1-based): the characters i.. of s spell p
MatchAt(s, i, p) ==
    /\ i + Len(p) - 1 <= Len(s)
    /\ SubSeq(s, i, i + Len(p) - 1) = p

\* str.find, 1-based, 0 when absent; scans from position i
RECURSIVE FindFrom(_, _, _)
FindFrom(s, sub, i) ==
    IF i + Len(sub) - 1 > Len(s) THEN 0
    ELSE IF MatchAt(s, i, sub) THEN i
    ELSE FindFrom(s, sub, i + 1)

\* the Python test `sub in s`
In(sub, s) == FindFrom(s, sub, 1) # 0

\* s.split(sep)[0]
SplitFirst(s, sep) ==
    LET i == FindFrom(s, sep, 1)
    IN  IF i = 0 THEN s ELSE SubSeq(s, 1, i - 1)

\* first position >= i of s that holds no white space (Len(s)+1 when none)
RECURSIVE SkipSpace(_, _)
SkipSpace(s, i) ==
    IF i > Len(s) \/ ~IsSpace(CharAt(s, i)) THEN i ELSE SkipSpace(s, i + 1)

\* first position >= i of s that holds white space (Len(s)+1 when none)
RECURSIVE SkipWord(_, _)
SkipWord(s, i) ==
    IF i > Len(s) \/ IsSpace(CharAt(s, i)) THEN i ELSE SkipWord(s, i + 1)

\* s.split(): the maximal runs of non-space characters, in order
RECURSIVE Split(_)
Split(s) ==
    LET i == SkipSpace(s, 1)
        j == SkipWord(s, i)
    IN  IF i > Len(s) THEN << >>
        ELSE <<SubSeq(s, i, j - 1)>> \o Split(SubSeq(s, j, Len(s)))

\* " ".join(words)
RECURSIVE Join(_)
Join(words) ==
    IF words = << >> THEN ""
    ELSE IF Len(words) = 1 THEN words[1]
    ELSE words[1] \o " " \o Join(Tail(words))

\* str.title: a cased character is upper-cased when the character before it
\* is not cased and lower-cased when it is; other characters are kept
RECURSIVE TitleFrom(_, _)
TitleFrom(s, prevCased) ==
    IF s = "" THEN ""
    ELSE LET c == Head(s)
         IN  (IF ~IsCased(c) THEN c
              ELSE IF prevCased THEN LowerChar(c) ELSE UpperChar(c))
             \o TitleFrom(Tail(s), IsCased(c))

Title(s) == TitleFrom(s, FALSE)

-----------------------------------------------------------------------------
(* clean_merchant_name                                                     *)

\* keyword_map, in insertion order
keyword_map ==
    << <<"AMZN", "Amazon">>, <<"AMAZON", "Amazon">>, <<"UBER", "Uber">>,
       <<"LYFT", "Lyft">>, <<"STARBUCKS", "Starbucks">>,
       <<"TRADER JOE", "Trader Joes">>, <<"WHOLEFDS", "Whole Foods">>,
       <<"APPLE", "Apple">>, <<"NETFLIX", "Netflix">>, <<"SPOTIFY", "Spotify">>,
       <<"TARGET", "Target">>, <<"COSTCO", "Costco">>, <<"SHELL", "Shell">>,
       <<"CHEVRON", "Chevron">>, <<"IN-N-OUT", "In-N-Out">>, <<"QT ", "Qt">>,
       <<"ARCO", "Arco">>, <<"EOS FITNESS", "Eos Fitness">>,
       <<"DISCORD", "Discord">>, <<"COX", "Cox">>, <<"VERIZON", "Verizon">>,
       <<"SRP", "Srp">> >>

\* the loop `for key, value in keyword_map.items(): if key in desc`:
\* the index of the first key found in desc, 0 when the loop falls through
RECURSIVE KeywordLoop(_, _)
KeywordLoop(desc, i) ==
    IF i > Len(keyword_map) THEN 0
    ELSE IF In(keyword_map[i][1], desc) THEN i
    ELSE KeywordLoop(desc, i + 1)

\* the alternatives of the processor pattern, in the order of the regex
PROCESSORS == <<"SQ", "TST", "PY", "SP", "TOAST">>

\* one alternative `P\s*\*` anchored at the start: the position after the
\* star, 0 when the alternative does not match
MatchProcessor(desc, p) ==
    IF ~MatchAt(desc, 1, p) THEN 0
    ELSE LET j == SkipSpace(desc, Len(p) + 1)
         IN  IF j <= Len(desc) /\ CharAt(desc, j) = "*" THEN j + 1 ELSE 0

\* re.sub(r'^(SQ\s*\*|TST\s*\*|PY\s*\*|SP\s*\*|TOAST\s*\*)\s*', '', desc)
RECURSIVE RemoveProcessor(_, _)
RemoveProcessor(desc, i) ==
    IF i > Len(PROCESSORS) THEN desc
    ELSE LET after == MatchProcessor(desc, PROCESSORS[i])
         IN  IF after = 0 THEN RemoveProcessor(desc, i + 1)
             ELSE SubSeq(desc, SkipSpace(desc, after), Len(desc))

\* str.rstrip('.,;')
RECURSIVE RStripPunct(_)
RStripPunct(s) ==
    IF s # "" /\ CharAt(s, Len(s)) \in {".", ",", ";"}
    THEN RStripPunct(SubSeq(s, 1, Len(s) - 1))
    ELSE s

\* GeneralCleanup with a final strip of trailing punctuation added
GeneralCleanup_StripPunct(desc) ==
    LET d1 == RemoveProcessor(desc, 1)
        d2 == SplitFirst(d1, " - ")
        d3 == SplitFirst(d2, " #")
    IN  RStripPunct(Title(Join(Split(d3))))

\* step 2 of clean_merchant_name, reached when no keyword matched
GeneralCleanup(desc) ==
    LET d1 == RemoveProcessor(desc, 1)
        d2 == SplitFirst(d1, " - ")
        d3 == SplitFirst(d2, " #")
    IN  Title(Join(Split(d3)))

\* clean_merchant_name with the keyword table scanned from its last entry
RECURSIVE KeywordLoopBackwards(_, _)
KeywordLoopBackwards(desc, i) ==
    IF i < 1 THEN 0
    ELSE IF In(keyword_map[i][1], desc) THEN i
    ELSE KeywordLoopBackwards(desc, i - 1)

clean_merchant_name_LastKeyWins(d) ==
    LET desc == Upper(d)
        hit  == KeywordLoopBackwards(desc, Len(keyword_map))
    IN  IF hit # 0 THEN keyword_map[hit][2] ELSE GeneralCleanup(desc)

clean_merchant_name(d) ==
    LET desc == Upper(d)
        hit  == KeywordLoop(desc, 1)
    IN  IF hit # 0 THEN keyword_map[hit][2] ELSE GeneralCleanup(desc)

-----------------------------------------------------------------------------
(* classify_checking_transaction                                           *)

INCOME_KEYWORDS == <<"DIRECT DEP", "PAYROLL", "ACH CREDIT", "DEPOSIT">>

TRANSFER_KEYWORDS ==
    <<"TRANSFER", "PAYMENT TO CHASE CARD", "ONLINE TRANSFER",
      "SAVE AS YOU GO", "ZELLE">>

\* the loop `for kw in keywords: if kw in desc_upper: return ...`
RECURSIVE AnyKeywordFrom(_, _, _)
AnyKeywordFrom(keywords, desc, i) ==
    IF i > Len(keywords) THEN FALSE
    ELSE IF In(keywords[i], desc) THEN TRUE
    ELSE AnyKeywordFrom(keywords, desc, i + 1)

AnyKeyword(keywords, desc) == AnyKeywordFrom(keywords, desc, 1)

\* classify_checking_transaction with the income keywords tested first
classify_checking_transaction_IncomeFirst(d, amt) ==
    LET desc_upper == Upper(d)
    IN  IF AnyKeyword(INCOME_KEYWORDS, desc_upper) THEN "income"
        ELSE IF AnyKeyword(TRANSFER_KEYWORDS, desc_upper) THEN "transfer"
        ELSE IF amt > 0 THEN "income"
        ELSE "expense"

classify_checking_transaction(d, amt) ==
    LET desc_upper == Upper(d)
    IN  IF AnyKeyword(TRANSFER_KEYWORDS, desc_upper) THEN "transfer"
        ELSE IF AnyKeyword(INCOME_KEYWORDS, desc_upper) THEN "income"
        ELSE IF amt > 0 THEN "income"
        ELSE "expense"

-----------------------------------------------------------------------------
(* map_category                                                            *)

BUDGET_CATEGORIES ==
    { "Home Electricity", "Home Water/Trash", "Home Furniture", "Internet",
      "Phone Bill", "HOA Bill", "Home Maintenance", "Car Registration",
      "Discord Subscription", "Spotify Subscription",
      "Amazon Prime Subscription", "Gym Membership",
      "Chase Sapphire Preferred Fee", "Costco Membership", "Groceries", "Gas",
      "Restaurants", "Health / Doctors", "Car Maintenance", "Pest control",
      "Landscaping", "Games", "Vacation", "Personal" }

BANK_CATEGORY_FALLBACK ==
    [c \in { "Food & Drink", "Vehicle Services", "Health & Wellness",
             "Groceries", "Home", "Travel", "Automotive" } |->
        CASE c = "Food & Drink"      -> "Restaurants"
          [] c = "Vehicle Services"  -> "Gas"
          [] c = "Health & Wellness" -> "Health / Doctors"
          [] c = "Groceries"         -> "Groceries"
          [] c = "Home"              -> "Home Furniture"
          [] c = "Travel"            -> "Vacation"
          [] c = "Automotive"        -> "Car Maintenance"]

\* the four `if any(kw in desc_lower ...)` tests of the Bills & Utilities
\* branch, in the order of the code
UTILITY_RULES ==
    << <<(<<"electric", "srp", "power">>), "Home Electricity">>,
       <<(<<"water", "trash", "sewer", "city of">>), "Home Water/Trash">>,
       <<(<<"internet", "cox", "wifi">>), "Internet">>,
       <<(<<"phone", "verizon", "mobile", "t-mobile">>), "Phone Bill">> >>

\* the index of the first utility rule with a keyword in desc_lower, 0 when
\* the branch falls through
RECURSIVE UtilityRuleFrom(_, _)
UtilityRuleFrom(desc_lower, i) ==
    IF i > Len(UTILITY_RULES) THEN 0
    ELSE IF AnyKeyword(UTILITY_RULES[i][1], desc_lower) THEN i
    ELSE UtilityRuleFrom(desc_lower, i + 1)

\* rules 4 and 5: the generic keyword fallback and the default
KeywordFallback(desc_lower) ==
    IF In("gas", desc_lower) \/ In("fuel", desc_lower) THEN "Gas"
    ELSE IF In("food", desc_lower) \/ In("restaurant", desc_lower) THEN "Restaurants"
    ELSE "Personal"

\* rules 3 to 5
UtilityThenKeywords(bank_cat, desc_lower) ==
    LET u == IF bank_cat = "Bills & Utilities" THEN UtilityRuleFrom(desc_lower, 1) ELSE 0
    IN  IF u # 0 THEN UTILITY_RULES[u][2] ELSE KeywordFallback(desc_lower)

\* map_category with the bank-category fallback consulted before the
\* override table
map_category_BankFirst(r, cmap) ==
    LET key == <<r.Clean_Description, r.Category>>
        desc_lower == Lower(r.Clean_Description)
    IN  IF r.Category \in DOMAIN BANK_CATEGORY_FALLBACK
        THEN BANK_CATEGORY_FALLBACK[r.Category]
        ELSE IF key \in DOMAIN cmap THEN cmap[key]
        ELSE UtilityThenKeywords(r.Category, desc_lower)

\* map_category with the generic keywords tested before the Bills &
\* Utilities branch
map_category_KeywordsFirst(r, cmap) ==
    LET key == <<r.Clean_Description, r.Category>>
        desc_lower == Lower(r.Clean_Description)
    IN  IF key \in DOMAIN cmap THEN cmap[key]
        ELSE IF r.Category \in DOMAIN BANK_CATEGORY_FALLBACK
        THEN BANK_CATEGORY_FALLBACK[r.Category]
        ELSE IF KeywordFallback(desc_lower) # "Personal"
        THEN KeywordFallback(desc_lower)
        ELSE UtilityThenKeywords(r.Category, desc_lower)

map_category(r, cmap) ==
    LET key == <<r.Clean_Description, r.Category>>
        bank_cat == r.Category
        desc_lower == Lower(r.Clean_Description)
    IN  IF key \in DOMAIN cmap THEN cmap[key]
        ELSE IF bank_cat \in DOMAIN BANK_CATEGORY_FALLBACK
        THEN BANK_CATEGORY_FALLBACK[bank_cat]
        ELSE UtilityThenKeywords(bank_cat, desc_lower)

-----------------------------------------------------------------------------
(* The override store: category_mappings.csv and load_category_mappings.   *)

\* _SEED_CATEGORY_MAP as the dict holds it: one entry per key, in the order
\* of first insertion, with the value of the last duplicate of the literal
SEED_CATEGORY_MAP ==
    <<
       <<"Costco", "Groceries", "Groceries">>,
       <<"Costco", "Merchandise", "Groceries">>,
       <<"Costco", "Shopping", "Groceries">>,
       <<"Costco Gas", "Gas", "Gas">>,
       <<"Costco Gas", "Vehicle Services", "Gas">>,
       <<"Qt", "Vehicle Services", "Gas">>,
       <<"Qt", "Gas", "Gas">>,
       <<"Shell", "Gas", "Gas">>,
       <<"Chevron", "Gas", "Gas">>,
       <<"Amazon", "Shopping", "Personal">>,
       <<"Amazon Prime", "Bills & Utilities", "Amazon Prime Subscription">>,
       <<"Spotify", "Bills & Utilities", "Spotify Subscription">>,
       <<"Discord", "Bills & Utilities", "Discord Subscription">>,
       <<"Eos Fitness", "Health & Wellness", "Gym Membership">>,
       <<"Cox", "Bills & Utilities", "Internet">>,
       <<"Verizon", "Bills & Utilities", "Phone Bill">>,
       <<"Srp", "Bills & Utilities", "Home Electricity">>,
       <<"City Of Chandler", "Bills & Utilities", "Home Water/Trash">>,
       <<"354 Amf 8003425263", "Food & Drink", "Personal">>,
       <<"Amazon", "Bills & Utilities", "Personal">>,
       <<"Andy'S", "Food & Drink", "Restaurants">>,
       <<"Apple", "Shopping", "Personal">>,
       <<"Arco", "Vehicle Services", "Personal">>,
       <<"Arirang Banchan", "Groceries", "Groceries">>,
       <<"Big O Tires 4247", "Automotive", "Personal">>,
       <<"Broken Rice", "Food & Drink", "Restaurants">>,
       <<"Caffenio", "Food & Drink", "Restaurants">>,
       <<"Costco", "Vehicle Services", "Personal">>,
       <<"Crafti Tea &Amp; Mocktail", "Food & Drink", "Restaurants">>,
       <<"Dayungs Tea Chandler", "Food & Drink", "Restaurants">>,
       <<"Dong Feng Seafood City", "Groceries", "Restaurants">>,
       <<"Fitness Your Way", "Health & Wellness", "Personal">>,
       <<"Go Green Valet", "Travel", "Personal">>,
       <<"Green Corner Restaura", "Food & Drink", "Restaurants">>,
       <<"H Mart Mesa Llc", "Groceries", "Personal">>,
       <<"Hechalou", "Food & Drink", "Restaurants">>,
       <<"Hiro Sushi", "Food & Drink", "Restaurants">>,
       <<"Hodori Restaurant.", "Food & Drink", "Restaurants">>,
       <<"Ikea Tempe", "Home", "Personal">>,
       <<"In-N-Out", "Food & Drink", "Restaurants">>,
       <<"Laymoon Cafe", "Food & Drink", "Restaurants">>,
       <<"Meet Fresh", "Food & Drink", "Restaurants">>,
       <<"Micro Center", "Shopping", "Personal">>,
       <<"Phoenyx International", "Food & Drink", "Restaurants">>,
       <<"Pizzeria Bianco", "Food & Drink", "Restaurants">>,
       <<"Snowy Village", "Food & Drink", "Restaurants">>,
       <<"Sp Flakes", "Shopping", "Personal">>,
       <<"Sp Revival Rugs", "Home", "Personal">>,
       <<"T-Swirl Crepe Arizona", "Food & Drink", "Restaurants">>,
       <<"Taqueria Mi Casita", "Food & Drink", "Restaurants">>,
       <<"Tasty Pot", "Food & Drink", "Restaurants">>,
       <<"Tous Les Jours Mesa", "Food & Drink", "Groceries">>,
       <<"Trader Joes", "Groceries", "Groceries">>
    >>

\* the rows written on first run: Clean_Description, Bank_Category,
\* Budget_Category per seed entry
SeedRows ==
    [i \in 1..Len(SEED_CATEGORY_MAP) |->
        [Clean_Description |-> SEED_CATEGORY_MAP[i][1],
         Bank_Category     |-> SEED_CATEGORY_MAP[i][2],
         Budget_Category   |-> SEED_CATEGORY_MAP[i][3]]]

\* the file after load_category_mappings: seeded when it did not exist
FileAfterLoad(file) == IF ~file.exists THEN File(SeedRows) ELSE file

\* the key of a row of the file
KeyOf(r) == <<r.Clean_Description, r.Bank_Category>>

\* the loop `mapping_dict[key] = row['Budget_Category']` over the rows: a
\* later row of the same key overwrites an earlier one, so every key ends
\* with the value of its last row
RowsToDict(rows) ==
    LET keys == {KeyOf(rows[i]) : i \in 1..Len(rows)}
        last(k) == CHOOSE i \in 1..Len(rows) :
                      /\ KeyOf(rows[i]) = k
                      /\ \A j \in (i + 1)..Len(rows) : KeyOf(rows[j]) # k
    IN  [k \in keys |-> rows[last(k)].Budget_Category]

\* the dict load_category_mappings returns
load_category_mappings(file) == RowsToDict(FileAfterLoad(file).rows)

-----------------------------------------------------------------------------
(* The batch run: Yearly_Spending.main.                                    *)

PAYMENT_TERMS == <<"PAYMENT THANK YOU", "MOBILE PAYMENT", "CREDIT CARD PYMT", "AUTOPAY">>

\* the number a run of decimal digits spells; -1 for any other text
ParseDigits(s) ==
    LET digits == "0123456789"
        DigitOf(c) == (CHOOSE k \in 1..10 : CharAt(digits, k) = c) - 1
        RECURSIVE val(_)
        val(n) == IF n = 0 THEN 0 ELSE val(n - 1) * 10 + DigitOf(CharAt(s, n))
    IN  IF s # "" /\ \A i \in 1..Len(s) : \E k \in 1..10 : CharAt(digits, k) = CharAt(s, i)
        THEN val(Len(s))
        ELSE -1

\* pd.to_numeric(cell, errors='coerce').fillna(0): the number the cell
\* spells, 0 for a cell that spells none (whole numbers stand for amounts)
to_numeric(cell) ==
    LET neg  == cell # "" /\ CharAt(cell, 1) = "-"
        body == IF neg THEN SubSeq(cell, 2, Len(cell)) ELSE cell
        n    == ParseDigits(body)
    IN  IF n = -1 THEN 0 ELSE IF neg THEN -n ELSE n

\* pd.to_datetime(cell, format='mixed') on one cell, errors left at 'raise':
\* the date a cell MM/DD/YYYY (the layout of a Chase export, read day first
\* when the first number is no month) or YYYY-MM-DD spells; NaT, held as
\* year 0, for the empty cell read_csv reads as NaN; for text that spells
\* no date the parser raises
to_datetime(cell) ==
    LET a == ParseDigits(SubSeq(cell, 1, 2))
        b == ParseDigits(SubSeq(cell, 4, 5))
        y == ParseDigits(SubSeq(cell, 7, 10))
        iso_y == ParseDigits(SubSeq(cell, 1, 4))
        iso_m == ParseDigits(SubSeq(cell, 6, 7))
        iso_d == ParseDigits(SubSeq(cell, 9, 10))
    IN  IF cell = "" THEN Returned([year |-> 0, month |-> 0, day |-> 0])
        ELSE IF Len(cell) # 10 THEN Raised("DateParseError")
        ELSE IF /\ CharAt(cell, 3) = "/" /\ CharAt(cell, 6) = "/"
                /\ a \in 1..12 /\ b \in 1..31 /\ y # -1
        THEN Returned([year |-> y, month |-> a, day |-> b])
        ELSE IF /\ CharAt(cell, 3) = "/" /\ CharAt(cell, 6) = "/"
                /\ a \in 13..31 /\ b \in 1..12 /\ y # -1
        THEN Returned([year |-> y, month |-> b, day |-> a])
        ELSE IF /\ CharAt(cell, 5) = "-" /\ CharAt(cell, 8) = "-"
                /\ iso_y # -1 /\ iso_m \in 1..12 /\ iso_d \in 1..31
        THEN Returned([year |-> iso_y, month |-> iso_m, day |-> iso_d])
        ELSE Raised("DateParseError")

\* the column parses: no cell of it makes pd.to_datetime raise
DatesParse(df) == \A i \in 1..Len(df) : to_datetime(df[i].Transaction_Date).raised = ""

\* the frame a Chase export loads to: Amount_Norm = to_numeric(Amount) * -1;
\* idx is the index pandas gives the row
LoadRows(csv, source) ==
    [i \in 1..Len(csv) |->
        [idx              |-> i,
         Transaction_Date |-> csv[i].Transaction_Date,
         Description      |-> csv[i].Description,
         Category         |-> csv[i].Category,
         Amount           |-> csv[i].Amount,
         Amount_Norm      |-> to_numeric(csv[i].Amount) * (-1),
         Source           |-> source]]

\* df['Description'].str.contains('|'.join(payment_terms), case=False)
is_payment(r) == AnyKeyword(PAYMENT_TERMS, Upper(r.Description))

\* the columns main adds to the credit-card frame
CreditFrame(df) ==
    [i \in 1..Len(df) |->
        [idx               |-> df[i].idx,
         Transaction_Date  |-> to_datetime(df[i].Transaction_Date).value,
         Description       |-> df[i].Description,
         Clean_Description |-> clean_merchant_name(df[i].Description),
         Category          |-> df[i].Category,
         Net_Amount        |-> df[i].Amount_Norm,
         Source            |-> df[i].Source,
         account_type      |-> "credit"]]

\* df_payments = df[is_payment]
PaymentRows(df) == SelectSeq(df, is_payment)

\* the spending filter keeping rows of amount zero
SpendingRows_NonNegative(df) ==
    SelectSeq(df, LAMBDA r : ~is_payment(r) /\ r.Net_Amount >= 0)

\* df_spending = df[~is_payment], then the rows with Net_Amount > 0
SpendingRows(df) ==
    SelectSeq(SelectSeq(df, LAMBDA r : ~is_payment(r)), LAMBDA r : r.Net_Amount > 0)

\* the Budget_Category column: map_category applied to every row
WithBudgetCategory(df, cmap) ==
    [i \in 1..Len(df) |->
        [idx               |-> df[i].idx,
         Transaction_Date  |-> df[i].Transaction_Date,
         Description       |-> df[i].Description,
         Clean_Description |-> df[i].Clean_Description,
         Category          |-> df[i].Category,
         Net_Amount        |-> df[i].Net_Amount,
         Source            |-> df[i].Source,
         account_type      |-> df[i].account_type,
         Budget_Category   |-> map_category(df[i], cmap)]]

Abs(n) == IF n < 0 THEN -n ELSE n

\* the columns main adds to the checking frame, tx_type among them
CheckingFrame(ck) ==
    [i \in 1..Len(ck) |->
        [idx               |-> ck[i].idx,
         Transaction_Date  |-> to_datetime(ck[i].Transaction_Date).value,
         Description       |-> ck[i].Description,
         Clean_Description |-> clean_merchant_name(ck[i].Description),
         Category          |-> ck[i].Category,
         Raw_Amount        |-> to_numeric(ck[i].Amount),
         Net_Amount        |-> ck[i].Amount_Norm,
         Source            |-> ck[i].Source,
         account_type      |-> "checking",
         tx_type           |-> classify_checking_transaction(ck[i].Description,
                                                             to_numeric(ck[i].Amount))]]

\* the expense split taking every row that is not income
ExpenseRows_NotIncome(ck) == SelectSeq(ck, LAMBDA r : r.tx_type # "income")

\* ck_income = ck[ck['tx_type'] == 'income']
IncomeRows(ck) == SelectSeq(ck, LAMBDA r : r.tx_type = "income")

\* ck_expense = ck[ck['tx_type'] == 'expense']
ExpenseRows(ck) == SelectSeq(ck, LAMBDA r : r.tx_type = "expense")

\* ck_income['Net_Amount'] = ck_income['Raw_Amount'].abs(), then the rows with
\* Net_Amount > 0
IncomeNet(ck) ==
    SelectSeq([i \in 1..Len(ck) |-> [ck[i] EXCEPT !.Net_Amount = Abs(ck[i].Raw_Amount)]],
              LAMBDA r : r.Net_Amount > 0)

\* ck_expense['Net_Amount'] = ck_expense['Net_Amount'].abs(), then the rows
\* with Net_Amount > 0
ExpenseNet(ck) ==
    SelectSeq([i \in 1..Len(ck) |-> [ck[i] EXCEPT !.Net_Amount = Abs(ck[i].Net_Amount)]],
              LAMBDA r : r.Net_Amount > 0)

-----------------------------------------------------------------------------
(* _get_longest_consecutive_run                                            *)

\* the month numbers of MONTH_NAMES are 1..LastMonth
LastMonth == 12

\* the for loop, from index i with the running max_run and current_run
RECURSIVE RunLoop(_, _, _, _)
RunLoop(m, i, max_run, current_run) ==
    IF i > Len(m) THEN max_run
    ELSE IF m[i] = m[i - 1] + 1
    THEN RunLoop(m, i + 1,
                 IF current_run + 1 > max_run THEN current_run + 1 ELSE max_run,
                 current_run + 1)
    ELSE RunLoop(m, i + 1, max_run, 1)

\* the loop without the reset of current_run at a gap
RECURSIVE RunLoopNoReset(_, _, _, _)
RunLoopNoReset(m, i, max_run, current_run) ==
    IF i > Len(m) THEN max_run
    ELSE IF m[i] = m[i - 1] + 1
    THEN RunLoopNoReset(m, i + 1,
                 IF current_run + 1 > max_run THEN current_run + 1 ELSE max_run,
                 current_run + 1)
    ELSE RunLoopNoReset(m, i + 1, max_run, current_run)

get_longest_consecutive_run_NoReset(m) ==
    IF Len(m) <= 1 THEN Len(m) ELSE RunLoopNoReset(m, 2, 1, 1)

get_longest_consecutive_run(m) ==
    IF Len(m) <= 1 THEN Len(m) ELSE RunLoop(m, 2, 1, 1)

-----------------------------------------------------------------------------
(* Inputs and the harness that calls the pure functions.                   *)

\* the analytics, the notes and the dashboard are not part of a batch run
\* nor of a call of the functions of Yearly_Spending.py
IdleExt ==
    /\ frame = << >>
    /\ amount_tolerance = 0
    /\ min_consecutive_months = 0
    /\ kwargs = << >>
    /\ notes_df = << >>
    /\ NOTES_FILE = NoFile
    /\ df_trans = << >>
    /\ mappings_dict = << >>
    /\ new_mappings_df = << >>
    /\ hand_edits = 0
    /\ tmp_file = NoFile
    /\ exports = NoExports

\* the batch run is not part of the single-call specifications
IdleBatch ==
    /\ IdleExt
    /\ credit_csv = << >>
    /\ checking_csv = << >>
    /\ MAPPINGS_FILE = NoFile
    /\ raw_df = << >>
    /\ checking_df = << >>
    /\ df_spending = << >>
    /\ df_payments = << >>
    /\ ck_income = << >>
    /\ ck_expense = << >>

\* the pieces raw statement descriptions are assembled from: processor
\* prefixes, separators, keyword hits in either case, plain words, white
\* space and punctuation
CleanFragments ==
    { "SQ", "tst", "*", " ", "\t", " - ", " #", "amzn", "COSTCO", "GAS",
      "QT", "cafe", "bar.", ",", ";", "4a" }

RECURSIVE Assemble(_, _)
Assemble(frags, n) ==
    IF n = 0 THEN {""}
    ELSE LET shorter == Assemble(frags, n - 1)
         IN  shorter \cup {s \o f : s \in shorter, f \in frags}

InitClean ==
    /\ description \in Assemble(CleanFragments, MaxFrags)
    /\ amount = 0
    /\ row = [Clean_Description |-> "", Category |-> ""]
    /\ category_map = << >>
    /\ month_numbers = << >>
    /\ ret = NoValue
    /\ pc = "call"
    /\ IdleBatch

CallCleanMerchantName ==
    /\ pc = "call"
    /\ ret' = clean_merchant_name(description)
    /\ pc' = "done"
    /\ UNCHANGED <<extVars, description, amount, row, category_map, month_numbers, batchVars>>

NextClean == CallCleanMerchantName

SpecClean == InitClean /\ [][NextClean]_vars

\* the pieces checking-account descriptions are assembled from
ClassifyFragments ==
    { "transfer", "Zelle", "deposit", "PAYROLL", "DIRECT", " DEP",
      "ACH CREDIT", " ", "debit", "SAVE AS YOU GO" }

Amounts == (-MaxAmount)..MaxAmount

InitClassify ==
    /\ description \in Assemble(ClassifyFragments, MaxFrags)
    /\ amount \in Amounts
    /\ row = [Clean_Description |-> "", Category |-> ""]
    /\ category_map = << >>
    /\ month_numbers = << >>
    /\ ret = NoValue
    /\ pc = "call"
    /\ IdleBatch

CallClassifyCheckingTransaction ==
    /\ pc = "call"
    /\ ret' = classify_checking_transaction(description, amount)
    /\ pc' = "done"
    /\ UNCHANGED <<extVars, description, amount, row, category_map, month_numbers, batchVars>>

NextClassify == CallClassifyCheckingTransaction

SpecClassify == InitClassify /\ [][NextClassify]_vars

\* the pieces canonical merchant names are assembled from
NameFragments ==
    { "Srp", "Power", "City Of", "Cox", "Verizon", "Gas", "FUEL", "Food",
      "restaurant", " ", "Store" }

BankCategories ==
    DOMAIN BANK_CATEGORY_FALLBACK \cup {"Bills & Utilities", "Shopping", "Uncategorized"}

\* the (Clean_Description, Category) pairs that override tables are built on
OverrideKeys ==
    { <<"Gas", "Food & Drink">>, <<"Srp", "Bills & Utilities">> }

OverrideValues == {"Games", "Personal"}

\* the override tables: every table on a subset of the keys
OverrideTables ==
    UNION {[K -> OverrideValues] : K \in SUBSET OverrideKeys}

InitMap ==
    /\ row \in [Clean_Description : Assemble(NameFragments, MaxNameFrags),
                Category : BankCategories]
    /\ category_map \in OverrideTables
    /\ description = ""
    /\ amount = 0
    /\ month_numbers = << >>
    /\ ret = NoValue
    /\ pc = "call"
    /\ IdleBatch

CallMapCategory ==
    /\ pc = "call"
    /\ ret' = map_category(row, category_map)
    /\ pc' = "done"
    /\ UNCHANGED <<extVars, description, amount, row, category_map, month_numbers, batchVars>>

NextMap == CallMapCategory

SpecMap == InitMap /\ [][NextMap]_vars

\* the members of S in increasing order
RECURSIVE SortedSeq(_)
SortedSeq(S) ==
    IF S = {} THEN << >>
    ELSE LET x == CHOOSE y \in S : \A z \in S : y <= z
         IN  <<x>> \o SortedSeq(S \ {x})

InitRun ==
    /\ month_numbers \in {SortedSeq(S) : S \in SUBSET (1..LastMonth)}
    /\ description = ""
    /\ amount = 0
    /\ row = [Clean_Description |-> "", Category |-> ""]
    /\ category_map = << >>
    /\ ret = NoValue
    /\ pc = "call"
    /\ IdleBatch

CallGetLongestConsecutiveRun ==
    /\ pc = "call"
    /\ ret' = get_longest_consecutive_run(month_numbers)
    /\ pc' = "done"
    /\ UNCHANGED <<extVars, description, amount, row, category_map, month_numbers, batchVars>>

NextRun == CallGetLongestConsecutiveRun

SpecRun == InitRun /\ [][NextRun]_vars

-----------------------------------------------------------------------------
(* The batch run as a state machine.                                       *)

\* the credit-card rows a run may find (Amount as Chase exports it, negative
\* for a purchase): a mixed-case and an upper-case card payment, a keyword
\* merchant with a store number, an unknown merchant; purchases, refunds
\* and a zero amount
CreditRows ==
    { [Transaction_Date |-> "01/15/2024", Description |-> d[1], Category |-> d[2],
       Amount |-> d[3]] :
        d \in { <<"Payment Thank You-Mobile", "Uncategorized", "5">>,
                <<"Payment Thank You-Mobile", "Uncategorized", "-5">>,
                <<"AUTOPAY 1234", "Uncategorized", "5">>,
                <<"COSTCO WHSE #12", "Groceries", "-5">>,
                <<"COSTCO WHSE #12", "Groceries", "0">>,
                <<"COSTCO WHSE #12", "Groceries", "5">>,
                <<"Mystery Store", "Shopping", "-5">>,
                <<"Mystery Store", "Shopping", "5">> } }

\* the checking rows a run may find (Amount positive for a deposit): a
\* transfer that looks like a deposit, a payroll entry, a card purchase
CheckingRows ==
    { [Transaction_Date |-> "01/15/2024", Description |-> d[1],
       Category |-> "Uncategorized", Amount |-> d[2]] :
        d \in { <<"Transfer Deposit Savings", "5">>,
                <<"Transfer Deposit Savings", "-5">>,
                <<"PAYROLL ACME", "5">>,
                <<"PAYROLL ACME", "-5">>,
                <<"Debit Card Mystery Store", "-5">>,
                <<"Debit Card Mystery Store", "0">>,
                <<"Debit Card Mystery Store", "5">> } }

SeqsUpTo(S, n) == UNION {[1..k -> S] : k \in 0..n}

\* df[output_cols]: the columns of a spending row as the export files hold
\* them (Month, Quarter and Week follow from the date)
OutputCols(df) ==
    [i \in 1..Len(df) |->
        [Transaction_Date  |-> df[i].Transaction_Date,
         Clean_Description |-> df[i].Clean_Description,
         Category          |-> df[i].Category,
         Budget_Category   |-> df[i].Budget_Category,
         Net_Amount        |-> df[i].Net_Amount,
         Source            |-> df[i].Source,
         account_type      |-> df[i].account_type]]

\* DataFrame.drop_duplicates() over all columns: a row stays when no earlier
\* row equals it
drop_duplicate_rows(rows) ==
    LET first == {i \in 1..Len(rows) : \A j \in 1..(i - 1) : rows[j] # rows[i]}
    IN  [n \in 1..Cardinality(first) |-> rows[SortedSeq(first)[n]]]

\* main, lines 376-430: {year}_All_Transactions.csv for every year of the
\* spending stream, all_transactions.csv from the concatenation of the
\* yearly frames, and the number of merchants the run reports as defaulted
Exports(spending) ==
    LET \* a row of date NaT belongs to no year
        cc_years == SortedSeq({spending[i].Transaction_Date.year :
                                  i \in 1..Len(spending)} \ {0})
        year_spending(y) ==
            OutputCols(SelectSeq(spending, LAMBDA r : r.Transaction_Date.year = y))
        RECURSIVE concat(_)
        concat(n) == IF n = 0 THEN << >>
                     ELSE concat(n - 1) \o year_spending(cc_years[n])
        all_spending == concat(Len(cc_years))
        unmapped == SelectSeq(all_spending, LAMBDA r : r.Budget_Category = "Personal")
        unmapped_merchants ==
            {<<unmapped[i].Clean_Description, unmapped[i].Category>> :
                i \in 1..Len(unmapped)}
    IN  [yearly    |-> [n \in 1..Len(cc_years) |->
                          [year |-> cc_years[n], rows |-> year_spending(cc_years[n])]],
         combined  |-> IF all_spending = << >> THEN NoFile
                       ELSE File(drop_duplicate_rows(all_spending)),
         defaulted |-> Cardinality(unmapped_merchants)]

\* what a person types into category_mappings.csv: a category of the list
\* or a misspelt one
EditKeys == {<<"Mystery Store", "Shopping">>}
EditValues == {"Games", "Grocery"}

Init ==
    /\ credit_csv \in SeqsUpTo(CreditRows, MaxRows)
    /\ checking_csv \in SeqsUpTo(CheckingRows, MaxRows)
    /\ Len(credit_csv) + Len(checking_csv) <= MaxRows
    /\ MAPPINGS_FILE \in {NoFile, File(SeedRows)}
    /\ category_map = << >>
    /\ raw_df = << >>
    /\ checking_df = << >>
    /\ df_spending = << >>
    /\ df_payments = << >>
    /\ ck_income = << >>
    /\ ck_expense = << >>
    /\ pc = "start"
    /\ description = ""
    /\ amount = 0
    /\ row = [Clean_Description |-> "", Category |-> ""]
    /\ month_numbers = << >>
    /\ ret = NoValue
    /\ IdleExt

\* main, lines 330-338: load both frames; return when both are empty
MainLoad ==
    /\ pc = "start"
    /\ raw_df' = LoadRows(credit_csv, "Chase")
    /\ checking_df' = LoadRows(checking_csv, "Chase Checking")
    /\ pc' = IF credit_csv = << >> /\ checking_csv = << >> THEN "done" ELSE "credit"
    /\ UNCHANGED <<extVars, fnVars, category_map, credit_csv, checking_csv, MAPPINGS_FILE,
                   df_spending, df_payments, ck_income, ck_expense>>

\* main, lines 344-432: the payment/spending split, the categories of the
\* spending rows and the export files; skipped when raw_df is empty; the
\* run ends with the exception when pd.to_datetime raises (line 346)
MainCredit ==
    /\ pc = "credit"
    /\ IF raw_df = << >>
       THEN /\ pc' = "checking"
            /\ UNCHANGED <<category_map, MAPPINGS_FILE, df_spending, df_payments, exports>>
       ELSE IF ~DatesParse(raw_df)
       THEN /\ pc' = "raised"
            /\ UNCHANGED <<category_map, MAPPINGS_FILE, df_spending, df_payments, exports>>
       ELSE LET df == CreditFrame(raw_df)
                cmap == load_category_mappings(MAPPINGS_FILE)
                spending == WithBudgetCategory(SpendingRows(df), cmap)
            IN  /\ pc' = "checking"
                /\ df_payments' = PaymentRows(df)
                /\ MAPPINGS_FILE' = FileAfterLoad(MAPPINGS_FILE)
                /\ category_map' = cmap
                /\ df_spending' = spending
                /\ exports' = Exports(spending)
    /\ UNCHANGED <<fnVars, credit_csv, checking_csv, raw_df, checking_df,
                   ck_income, ck_expense, frame, amount_tolerance,
                   min_consecutive_months, kwargs, notes_df, NOTES_FILE,
                   df_trans, mappings_dict, new_mappings_df, hand_edits, tmp_file>>

\* main, lines 436-504: classification of the checking rows, the income
\* stream and the categorised checking-expense stream (the mappings are
\* loaded again when there is an expense row); skipped when checking_df is
\* empty; the run ends with the exception when pd.to_datetime raises
\* (line 438)
MainChecking ==
    /\ pc = "checking"
    /\ IF checking_df = << >>
       THEN /\ pc' = "done"
            /\ UNCHANGED <<category_map, MAPPINGS_FILE, ck_income, ck_expense>>
       ELSE IF ~DatesParse(checking_df)
       THEN /\ pc' = "raised"
            /\ UNCHANGED <<category_map, MAPPINGS_FILE, ck_income, ck_expense>>
       ELSE LET ck == CheckingFrame(checking_df)
                income == IncomeRows(ck)
                expense == ExpenseRows(ck)
                cmap == load_category_mappings(MAPPINGS_FILE)
            IN  /\ pc' = "done"
                /\ ck_income' = IncomeNet(income)
                /\ IF expense = << >>
                   THEN /\ ck_expense' = << >>
                        /\ UNCHANGED <<category_map, MAPPINGS_FILE>>
                   ELSE /\ MAPPINGS_FILE' = FileAfterLoad(MAPPINGS_FILE)
                        /\ category_map' = cmap
                        /\ ck_expense' =
                              WithBudgetCategory(
                                  ExpenseNet(expense), cmap)
    /\ UNCHANGED <<extVars, fnVars, credit_csv, checking_csv, raw_df, checking_df,
                   df_spending, df_payments>>

\* the row of key k set to value v, appended when the key is new
SetRow(rows, k, v) ==
    IF \E i \in 1..Len(rows) : KeyOf(rows[i]) = k
    THEN [i \in 1..Len(rows) |->
            IF KeyOf(rows[i]) = k
            THEN [rows[i] EXCEPT !.Budget_Category = v] ELSE rows[i]]
    ELSE Append(rows, [Clean_Description |-> k[1], Bank_Category |-> k[2],
                       Budget_Category |-> v])

\* "To update mappings, edit category_mappings.csv directly": a person
\* writes a row of the existing file by hand, at any moment
EditMappingsFile ==
    /\ MAPPINGS_FILE.exists
    /\ \E k \in EditKeys, v \in EditValues :
          /\ \A i \in 1..Len(MAPPINGS_FILE.rows) :
                MAPPINGS_FILE.rows[i] #
                    [Clean_Description |-> k[1], Bank_Category |-> k[2],
                     Budget_Category |-> v]
          /\ MAPPINGS_FILE' = File(SetRow(MAPPINGS_FILE.rows, k, v))
    /\ UNCHANGED <<extVars, fnVars, category_map, pc, credit_csv, checking_csv, raw_df,
                   checking_df, df_spending, df_payments, ck_income, ck_expense>>

Next == MainLoad \/ MainCredit \/ MainChecking \/ EditMappingsFile

Spec == Init /\ [][Next]_vars

\* A run whose statement rows differ in date: two years, the same purchase
\* twice, a merchant the seed table maps to 'Personal' and one no rule
\* knows, a cell that spells no date, a cell that spells no amount
InitExport ==
    LET credit ==
            { [Transaction_Date |-> d[1], Description |-> d[2], Category |-> d[3],
               Amount |-> d[4]] :
                d \in { <<"01/15/2024", "COSTCO WHSE #12", "Groceries", "-5">>,
                        <<"02/03/2025", "COSTCO WHSE #12", "Groceries", "-5">>,
                        <<"01/15/2024", "Mystery Store", "Shopping", "-5">>,
                        <<"01/15/2024", "AMAZON MKTPL", "Shopping", "-5">>,
                        <<"PENDING", "Mystery Store", "Shopping", "-5">>,
                        <<"01/15/2024", "Mystery Store", "Shopping", "N/A">> } }
        checking ==
            { [Transaction_Date |-> d[1], Description |-> d[2],
               Category |-> "Uncategorized", Amount |-> d[3]] :
                d \in { <<"01/15/2024", "Debit Card Mystery Store", "-5">>,
                        <<"PENDING", "PAYROLL ACME", "5">> } }
    IN  /\ credit_csv \in SeqsUpTo(credit, MaxRows)
        /\ checking_csv \in SeqsUpTo(checking, MaxRows)
        /\ Len(credit_csv) + Len(checking_csv) <= MaxRows
        /\ MAPPINGS_FILE \in {NoFile, File(SeedRows)}
        /\ category_map = << >>
        /\ raw_df = << >>
        /\ checking_df = << >>
        /\ df_spending = << >>
        /\ df_payments = << >>
        /\ ck_income = << >>
        /\ ck_expense = << >>
        /\ pc = "start"
        /\ description = ""
        /\ amount = 0
        /\ row = [Clean_Description |-> "", Category |-> ""]
        /\ month_numbers = << >>
        /\ ret = NoValue
        /\ IdleExt

SpecExport == InitExport /\ [][MainLoad \/ MainCredit \/ MainChecking]_vars

-----------------------------------------------------------------------------
(* recurring.py: detect_recurring_merchants.  Amounts are integer cents.   *)
(* Of the columns of the result, Budget_Category (the merchant's most      *)
(* frequent category) and Amount_Std (the rounded deviation) are left out: *)
(* no filter reads them.  The rows of the result, which the code keeps in  *)
(* the order of the merchant names, are kept as a set.                     *)

MONTH_NAMES ==
    <<"Jan", "Feb", "Mar", "Apr", "May", "Jun",
      "Jul", "Aug", "Sep", "Oct", "Nov", "Dec">>

\* the bound of the frequency filter: group['tx_count'].mean() > 2.0
MaxTxPerMonth == 2

\* Annual_Projected is the median times 12
MonthsPerYear == 12

\* df['month_num'] = df['Transaction Date'].dt.month
month_num(r) == r.Transaction_Date.month

RECURSIVE SumSeq(_)
SumSeq(s) == IF s = << >> THEN 0 ELSE Head(s) + SumSeq(Tail(s))

\* the groups taken by year and month: a group holds the rows of the year
\* of the merchant's first row only
GroupRows_OneYear(df, merchant, m) ==
    LET first == CHOOSE i \in 1..Len(df) :
                    /\ df[i].Clean_Description = merchant
                    /\ \A j \in 1..(i - 1) : df[j].Clean_Description # merchant
    IN  SelectSeq(df, LAMBDA r : /\ r.Clean_Description = merchant
                                 /\ month_num(r) = m
                                 /\ r.Transaction_Date.year = df[first].Transaction_Date.year)

\* the rows of one group of df.groupby(['Clean_Description', 'month_num'])
GroupRows(df, merchant, m) ==
    SelectSeq(df, LAMBDA r : r.Clean_Description = merchant /\ month_num(r) = m)

MerchantsOf(df) == {df[i].Clean_Description : i \in 1..Len(df)}

MonthsOf(df, merchant) ==
    {month_num(df[i]) : i \in {j \in 1..Len(df) : df[j].Clean_Description = merchant}}

\* monthly_total=('Net_Amount', 'sum')
monthly_total(df, merchant, m) ==
    LET rows == GroupRows(df, merchant, m)
    IN  SumSeq([i \in 1..Len(rows) |-> rows[i].Net_Amount])

\* tx_count=('Net_Amount', 'count')
tx_count(df, merchant, m) == Len(GroupRows(df, merchant, m))

\* the rows of `monthly` of one merchant, in the order of the months
MonthlyGroup(df, merchant) ==
    LET months_list == SortedSeq(MonthsOf(df, merchant))
    IN  [i \in 1..Len(months_list) |->
            [month_num     |-> months_list[i],
             monthly_total |-> monthly_total(df, merchant, months_list[i]),
             tx_count      |-> tx_count(df, merchant, months_list[i])]]

Totals(group) == [i \in 1..Len(group) |-> group[i].monthly_total]

\* std_amount > amount_tolerance, std_amount being the sample standard
\* deviation (ddof = 1) of the monthly totals and 0.0 when it is NaN (one
\* total).  Squared and multiplied out to stay in the integers:
\* sum (x - mean)^2 / (n - 1) > tol^2
StdExceeds(totals, tol) ==
    LET n == Len(totals)
        sq == SumSeq([i \in 1..n |-> totals[i] * totals[i]])
        sm == SumSeq(totals)
    IN  IF tol < 0 THEN TRUE
        ELSE IF n < 2 THEN FALSE
        ELSE n * sq - sm * sm > tol * tol * n * (n - 1)

\* group['tx_count'].mean() > 2.0
TooFrequent(group) ==
    SumSeq([i \in 1..Len(group) |-> group[i].tx_count]) > MaxTxPerMonth * Len(group)

\* twice group['monthly_total'].median(): the median of an even number of
\* totals is the mean of the two middle ones and may fall on a half cent
Median2(totals) ==
    LET sorted == SortSeq(totals, LAMBDA a, b : a < b)
        n == Len(sorted)
    IN  IF n % 2 = 1 THEN 2 * sorted[(n + 1) \div 2]
        ELSE sorted[n \div 2] + sorted[n \div 2 + 1]

\* round(x, 2) of an amount given as twice its value in cents.  A half cent
\* goes up or down with the binary representation of the float; `ups` is
\* the set of the half-cent values that go up.
Round2(x2, ups) ==
    IF x2 % 2 = 0 THEN x2 \div 2
    ELSE IF x2 \in ups THEN (x2 + 1) \div 2 ELSE (x2 - 1) \div 2

\* ', '.join(MONTH_NAMES[m] for m in months_list)
RECURSIVE JoinComma(_)
JoinComma(names) ==
    IF names = << >> THEN ""
    ELSE IF Len(names) = 1 THEN names[1]
    ELSE names[1] \o ", " \o JoinComma(Tail(names))

\* the filters without the test of the consecutive run
PassesFilters_NoRunFilter(group, tol, minc) ==
    /\ ~(Len(group) < minc)
    /\ ~StdExceeds(Totals(group), tol)
    /\ ~TooFrequent(group)

\* the filters of the loop body, in the order of the code
PassesFilters(group, tol, minc) ==
    /\ ~(Len(group) < minc)
    /\ ~(get_longest_consecutive_run([i \in 1..Len(group) |-> group[i].month_num]) < minc)
    /\ ~StdExceeds(Totals(group), tol)
    /\ ~TooFrequent(group)

\* results.append({...})
RecurringRecord(merchant, group, ups) ==
    LET months_list == [i \in 1..Len(group) |-> group[i].month_num]
        median2 == Median2(Totals(group))
    IN  [Clean_Description  |-> merchant,
         Monthly_Amount     |-> Round2(median2, ups),
         Months_Active      |-> Len(months_list),
         Consecutive_Months |-> get_longest_consecutive_run(months_list),
         Active_Range       |-> JoinComma([i \in 1..Len(months_list) |->
                                               MONTH_NAMES[months_list[i]]]),
         Annual_Projected   |-> Round2(median2 * MonthsPerYear, ups)]

\* the keyword parameters of detect_recurring_merchants besides df
DetectRecurringSignature == {"amount_tolerance", "min_consecutive_months"}

detect_recurring_merchants(df, tol, minc, ups) ==
    IF df = << >> THEN {}
    ELSE { RecurringRecord(m, MonthlyGroup(df, m), ups) :
             m \in {x \in MerchantsOf(df) : PassesFilters(MonthlyGroup(df, x), tol, minc)} }

\* the half-cent medians round(median_amount, 2) meets on df
HalfCents(df) ==
    {x2 \in {Median2(Totals(MonthlyGroup(df, m))) : m \in MerchantsOf(df)} : x2 % 2 = 1}

-----------------------------------------------------------------------------
(* Calls of detect_recurring_merchants.                                    *)

\* the months a merchant's charges are drawn from are 1..MaxMonth
MaxMonth == 4

\* what a merchant is charged in one month, in cents: nothing, one charge
\* (two of them a cent apart, three far apart), five visits, two charges
ChargePatterns ==
    { << >>, <<1599>>, <<1600>>, <<1000>>, <<5000>>, <<10000>>,
      <<1000, 1000, 1000, 1000, 1000>>, <<800, 799>> }

\* the rows of a merchant charged plan[m] in month m, from month m on
RECURSIVE PlanRows(_, _, _)
PlanRows(merchant, plan, m) ==
    IF m > Len(plan) THEN << >>
    ELSE [i \in 1..Len(plan[m]) |->
            [Transaction_Date  |-> [year |-> 2024, month |-> m],
             Clean_Description |-> merchant,
             Net_Amount        |-> plan[m][i]]]
         \o PlanRows(merchant, plan, m + 1)

\* amount_tolerance and min_consecutive_months of a call: the defaults
\* (2.0, 2), no tolerance, a longer run, a single month
RecurringParams == { <<200, 2>>, <<0, 2>>, <<200, 3>>, <<200, 1>> }

\* the functions of Yearly_Spending.py and the batch run are not part of
\* the calls of recurring.py and transaction_notes.py
IdleMain ==
    /\ description = ""
    /\ amount = 0
    /\ row = [Clean_Description |-> "", Category |-> ""]
    /\ category_map = << >>
    /\ month_numbers = << >>
    /\ credit_csv = << >>
    /\ checking_csv = << >>
    /\ MAPPINGS_FILE = NoFile
    /\ raw_df = << >>
    /\ checking_df = << >>
    /\ df_spending = << >>
    /\ df_payments = << >>
    /\ ck_income = << >>
    /\ ck_expense = << >>

\* the keyword arguments a caller may add: none, or the frequency bound
\* tests/test_recurring.py passes
RecurringKwargs == { << >>, [max_monthly_frequency |-> 10] }

InitRecurring ==
    /\ \E plan \in [1..MaxMonth -> ChargePatterns],
          p \in RecurringParams, kw \in RecurringKwargs,
          other \in { << >>,
                      << <<"Store", 2024, 1, 1599>>, <<"Store", 2024, 2, 1599>> >>,
                      \* December and January of one year, then of two years
                      << <<"Gym", 2024, 1, 1599>>, <<"Gym", 2024, 12, 1599>> >>,
                      << <<"Gym", 2024, 12, 1599>>, <<"Gym", 2025, 1, 1599>> >>,
                      \* December to February across the turn of the year
                      << <<"Gym", 2024, 12, 1599>>, <<"Gym", 2025, 1, 1599>>,
                         <<"Gym", 2025, 2, 1599>> >>,
                      \* half of January's charge in each of two years
                      << <<"Club", 2024, 1, 800>>, <<"Club", 2025, 1, 800>>,
                         <<"Club", 2025, 2, 1600>> >> } :
          /\ (other # << >> \/ DOMAIN kw # {}) => p = <<200, 2>>
          /\ ~(other # << >> /\ DOMAIN kw # {})
          /\ kwargs = kw
          /\ frame = PlanRows("Netflix", plan, 1)
                     \o [i \in 1..Len(other) |->
                            [Transaction_Date  |-> [year  |-> other[i][2],
                                                    month |-> other[i][3]],
                             Clean_Description |-> other[i][1],
                             Net_Amount        |-> other[i][4]]]
          /\ amount_tolerance = p[1]
          /\ min_consecutive_months = p[2]
    /\ notes_df = << >>
    /\ NOTES_FILE = NoFile
    /\ df_trans = << >>
    /\ mappings_dict = << >>
    /\ new_mappings_df = << >>
    /\ hand_edits = 0
    /\ tmp_file = NoFile
    /\ exports = NoExports
    /\ ret = NoValue
    /\ pc = "call"
    /\ IdleMain

CallDetectRecurringMerchants ==
    /\ pc = "call"
    /\ IF DOMAIN kwargs \subseteq DetectRecurringSignature
       THEN \E ups \in SUBSET HalfCents(frame) :
               ret' = Returned(detect_recurring_merchants(
                                   frame, amount_tolerance,
                                   min_consecutive_months, ups))
       ELSE ret' = Raised("TypeError")
    /\ pc' = "done"
    /\ UNCHANGED <<description, amount, row, category_map, month_numbers,
                   batchVars, extVars>>

SpecRecurring == InitRecurring /\ [][CallDetectRecurringMerchants]_vars

-----------------------------------------------------------------------------
(* recurring.py: detect_subscription_changes.  None is the empty tuple and *)
(* an amount a is the tuple <<a>>.                                         *)

\* str(n) of a natural number
RECURSIVE ToStr(_)
ToStr(n) ==
    IF n < 10 THEN CharAt("0123456789", n + 1)
    ELSE ToStr(n \div 10) \o CharAt("0123456789", (n % 10) + 1)

\* f"{x:.2f}" of an amount in cents
Fmt2(c) ==
    LET a == IF c < 0 THEN -c ELSE c
    IN  (IF c < 0 THEN "-" ELSE "") \o ToStr(a \div 100) \o "."
        \o ToStr((a \div 10) % 10) \o ToStr(a % 10)

\* sorted(df['month_num'].unique())
available_months(df) == SortedSeq({month_num(df[i]) : i \in 1..Len(df)})

\* the rows of a half taken to be all rows of the window
InMonths_All(df, months) == df

\* df[df['month_num'].isin(months)]
InMonths(df, months) == SelectSeq(df, LAMBDA r : month_num(r) \in months)

\* the alerts one loop appends: perMerchant[m] for the merchants m of the
\* loop's set, taken in the order the set yields them
RECURSIVE LoopAlerts(_, _)
LoopAlerts(order, perMerchant) ==
    IF order = << >> THEN << >>
    ELSE perMerchant[Head(order)] \o LoopAlerts(Tail(order), perMerchant)

\* the comparison of the two amounts with the test abs(diff) >= tolerance
PriceAlert_AtLeast(merchant, old, new, tol) ==
    LET diff == new - old
    IN  IF Abs(diff) >= tol
        THEN << [type       |-> IF diff > 0 THEN "price_increase" ELSE "price_decrease",
                 merchant   |-> merchant,
                 detail     |-> "$" \o Fmt2(old) \o " -> $" \o Fmt2(new) \o "/mo ("
                                \o (IF diff > 0 THEN "+" ELSE "") \o Fmt2(diff) \o ")",
                 old_amount |-> <<old>>,
                 new_amount |-> <<new>>] >>
        ELSE << >>

\* the body of the loop over earlier_names & recent_names
PriceAlert(merchant, old, new, tol) ==
    LET diff == new - old
    IN  IF Abs(diff) > tol
        THEN << [type       |-> IF diff > 0 THEN "price_increase" ELSE "price_decrease",
                 merchant   |-> merchant,
                 detail     |-> "$" \o Fmt2(old) \o " -> $" \o Fmt2(new) \o "/mo ("
                                \o (IF diff > 0 THEN "+" ELSE "") \o Fmt2(diff) \o ")",
                 old_amount |-> <<old>>,
                 new_amount |-> <<new>>] >>
        ELSE << >>

\* the split of the months at the later midpoint, (n + 1) // 2
Midpoint_Ceil(n) == (n + 1) \div 2

\* midpoint = len(available_months) // 2
Midpoint(n) == n \div 2

\* the comparison of the two halves, lines 125-178.  ups: the half cents
\* that round up; order: the merchants in the order the sets of names yield
\* them.  detect_recurring_merchants is called with its default
\* min_consecutive_months, 2.
CompareHalves(df, tol, ups, order) ==
        LET months == available_months(df)
            midpoint == Midpoint(Len(months))
            earlier_months == {months[i] : i \in 1..midpoint}
            recent_months == {months[i] : i \in (midpoint + 1)..Len(months)}
            earlier_recurring ==
                detect_recurring_merchants(InMonths(df, earlier_months), tol, 2, ups)
            recent_recurring ==
                detect_recurring_merchants(InMonths(df, recent_months), tol, 2, ups)
            earlier_names == {r.Clean_Description : r \in earlier_recurring}
            recent_names == {r.Clean_Description : r \in recent_recurring}
            old_row(m) == CHOOSE r \in earlier_recurring : r.Clean_Description = m
            new_row(m) == CHOOSE r \in recent_recurring : r.Clean_Description = m
            names == {order[i] : i \in 1..Len(order)}
        IN  LoopAlerts(order,
                [m \in names |->
                    IF m \in recent_names \ earlier_names
                    THEN << [type       |-> "new",
                             merchant   |-> m,
                             detail     |-> "New recurring charge: $"
                                            \o Fmt2(new_row(m).Monthly_Amount) \o "/mo",
                             old_amount |-> << >>,
                             new_amount |-> <<new_row(m).Monthly_Amount>>] >>
                    ELSE << >>])
            \o LoopAlerts(order,
                [m \in names |->
                    IF m \in earlier_names \ recent_names
                    THEN << [type       |-> "cancelled",
                             merchant   |-> m,
                             detail     |-> "No longer appears (was $"
                                            \o Fmt2(old_row(m).Monthly_Amount) \o "/mo)",
                             old_amount |-> <<old_row(m).Monthly_Amount>>,
                             new_amount |-> << >>] >>
                    ELSE << >>])
            \o LoopAlerts(order,
                [m \in names |->
                    IF m \in earlier_names \cap recent_names
                    THEN PriceAlert(m, old_row(m).Monthly_Amount,
                                    new_row(m).Monthly_Amount, tol)
                    ELSE << >>])

\* the function reporting a short window as an alert of its own
detect_subscription_changes_ShortWindowAlert(df, tol, ups, order) ==
    IF Len(available_months(df)) < 3
    THEN << [type |-> "insufficient_data", merchant |-> "", detail |-> "",
             old_amount |-> << >>, new_amount |-> << >>] >>
    ELSE CompareHalves(df, tol, ups, order)

detect_subscription_changes(df, tol, ups, order) ==
    IF df = << >> THEN << >>
    ELSE IF Len(available_months(df)) < 3 THEN << >>
    ELSE CompareHalves(df, tol, ups, order)

-----------------------------------------------------------------------------
(* Calls of detect_subscription_changes.                                   *)

\* the window of months the charges fall in is 1..MaxWindow
MaxWindow == 6

\* the price of a subscription before and after a change: none, a cent,
\* exactly the default tolerance, more than it, and a drop
PriceChanges == { <<999, 999>>, <<999, 1000>>, <<999, 1199>>, <<999, 1200>>, <<1200, 999>> }

InitChanges ==
    /\ \E S \in SUBSET (1..MaxWindow), price \in PriceChanges, c \in {1, 3},
          T \in {{}, 1..MaxWindow, 1..3, 4..MaxWindow} :
          frame = PlanRows("New Service",
                           [m \in 1..MaxWindow |->
                               IF m \notin S THEN << >>
                               ELSE IF m <= c THEN <<price[1]>> ELSE <<price[2]>>], 1)
                  \o PlanRows("Netflix",
                              [m \in 1..MaxWindow |->
                                  IF m \in T THEN <<1599>> ELSE << >>], 1)
    /\ amount_tolerance \in {0, 200}
    /\ min_consecutive_months = 2
    /\ kwargs = << >>
    /\ notes_df = << >>
    /\ NOTES_FILE = NoFile
    /\ df_trans = << >>
    /\ mappings_dict = << >>
    /\ new_mappings_df = << >>
    /\ hand_edits = 0
    /\ tmp_file = NoFile
    /\ exports = NoExports
    /\ ret = NoValue
    /\ pc = "call"
    /\ IdleMain

CallDetectSubscriptionChanges ==
    /\ pc = "call"
    /\ LET months == available_months(frame)
           midpoint == Midpoint(Len(months))
           merchants == MerchantsOf(frame)
       IN  \E ups \in SUBSET
                   (HalfCents(InMonths(frame, {months[i] : i \in 1..midpoint}))
                    \cup HalfCents(InMonths(frame,
                             {months[i] : i \in (midpoint + 1)..Len(months)}))),
              order \in [1..Cardinality(merchants) -> merchants] :
              /\ \A i, j \in DOMAIN order : order[i] = order[j] => i = j
              /\ ret' = Returned(detect_subscription_changes(
                                     frame, amount_tolerance, ups, order))
    /\ pc' = "done"
    /\ UNCHANGED <<description, amount, row, category_map, month_numbers,
                   batchVars, extVars>>

SpecChanges == InitChanges /\ [][CallDetectSubscriptionChanges]_vars

-----------------------------------------------------------------------------
(* The dashboard's side of the override store: frontend.py reads           *)
(* category_mappings.csv into a dict, lists the (merchant, bank category)  *)
(* pairs of its transactions that have no row yet, and Save Mappings       *)
(* writes the reviewed rows back.                                          *)

RECURSIVE drop_duplicates_KeepFirst(_), drop_duplicates(_)

\* load_mappings: no file gives the empty dict, otherwise last row wins
load_mappings(file) == IF ~file.exists THEN << >> ELSE RowsToDict(file.rows)

\* apply_mapping_overlay leaving every row as it is
apply_mapping_overlay_NoOverlay(df, dict) == df

\* apply_mapping_overlay: a row whose key is in the dict takes its value
apply_mapping_overlay(df, dict) ==
    [i \in 1..Len(df) |->
        LET key == <<df[i].Clean_Description, df[i].Category>>
        IN  IF key \in DOMAIN dict
            THEN [df[i] EXCEPT !.Budget_Category = dict[key]]
            ELSE df[i]]

\* unreviewed_df: one row per pair of df_trans that is no key of the dict,
\* with its current Budget_Category (that of its first transaction), sorted
\* by Total_Amount, largest first
unreviewed_df(df, dict) ==
    LET key(i) == <<df[i].Clean_Description, df[i].Category>>
        firsts == {i \in 1..Len(df) : \A j \in 1..(i - 1) : key(j) # key(i)}
        total(i) == SumSeq([j \in 1..Len(df) |->
                              IF key(j) = key(i) THEN df[j].Net_Amount ELSE 0])
        combos == [n \in 1..Cardinality(firsts) |->
                     LET i == SortedSeq(firsts)[n]
                     IN  [Clean_Description |-> df[i].Clean_Description,
                          Category          |-> df[i].Category,
                          Total_Amount      |-> total(i),
                          Budget_Category   |-> df[i].Budget_Category]]
        open == SelectSeq(combos,
                          LAMBDA c : <<c.Clean_Description, c.Category>>
                                        \notin DOMAIN dict)
    IN  SortSeq(open, LAMBDA a, b : a.Total_Amount > b.Total_Amount)

\* drop_duplicates(subset = the key columns, keep='first')
drop_duplicates_KeepFirst(rows) ==
    IF rows = << >> THEN << >>
    ELSE LET n == Len(rows)
         IN  IF \E j \in 1..(n - 1) : KeyOf(rows[j]) = KeyOf(rows[n])
             THEN drop_duplicates_KeepFirst(SubSeq(rows, 1, n - 1))
             ELSE Append(drop_duplicates_KeepFirst(SubSeq(rows, 1, n - 1)), rows[n])

\* drop_duplicates(subset = the key columns, keep='last'): a row stays when
\* no later row has its key; the rows that stay keep their order
drop_duplicates(rows) ==
    IF rows = << >> THEN << >>
    ELSE IF \E j \in 2..Len(rows) : KeyOf(rows[j]) = KeyOf(rows[1])
         THEN drop_duplicates(Tail(rows))
         ELSE <<rows[1]>> \o drop_duplicates(Tail(rows))

-----------------------------------------------------------------------------
(* The store between the batch and the dashboard: the batch loads it, the  *)
(* dashboard loads it and saves reviewed rows into it, and its owner edits *)
(* the file by hand.  The dashboard's transactions are the output of an    *)
(* earlier batch run; category_mappings.csv may be missing all the same    *)
(* (frontend.py handles that state when it loads and when it saves).       *)

\* the transactions the dashboard may hold: a seeded pair, a pair the seed
\* table does not know (twice), and a third pair
DashboardRows ==
    << [Clean_Description |-> "Costco", Category |-> "Groceries",
        Net_Amount |-> 5000, Budget_Category |-> "Groceries"],
       [Clean_Description |-> "Mystery Store", Category |-> "Shopping",
        Net_Amount |-> 2000, Budget_Category |-> "Personal"],
       [Clean_Description |-> "Corner Cafe", Category |-> "Food & Drink",
        Net_Amount |-> 700, Budget_Category |-> "Restaurants"],
       [Clean_Description |-> "Mystery Store", Category |-> "Shopping",
        Net_Amount |-> 6000, Budget_Category |-> "Personal"] >>

\* what the owner does to the file by hand: the rows of a key get another
\* value, a key gets a second row, the rows of a key are deleted
HandEdits ==
    {<<"set", "Mystery Store", "Shopping", "Games">>,
     <<"append", "Mystery Store", "Shopping", "Grocery">>,
     <<"remove", "Costco", "Groceries", "">>,
     <<"remove", "Mystery Store", "Shopping", "">>}

\* number of hand edits in one behaviour
MaxHandEdits == 1

InitStore ==
    /\ MAPPINGS_FILE \in {NoFile, File(SeedRows)}
    /\ mappings_dict = load_mappings(MAPPINGS_FILE)
    /\ \E S \in {{1, 2, 3, 4}, {2}, {1, 3}} :
          df_trans = apply_mapping_overlay(
                        [n \in 1..Cardinality(S) |-> DashboardRows[SortedSeq(S)[n]]],
                        mappings_dict)
    /\ new_mappings_df = << >>
    /\ hand_edits = 0
    /\ tmp_file = NoFile
    /\ exports = NoExports
    /\ category_map = << >>
    /\ pc = "shown"
    /\ frame = << >> /\ amount_tolerance = 0 /\ min_consecutive_months = 0
    /\ kwargs = << >> /\ notes_df = << >> /\ NOTES_FILE = NoFile
    /\ description = "" /\ amount = 0 /\ row = [Clean_Description |-> "", Category |-> ""] /\ month_numbers = << >>
    /\ ret = NoValue
    /\ credit_csv = << >> /\ checking_csv = << >>
    /\ raw_df = << >> /\ checking_df = << >>
    /\ df_spending = << >> /\ df_payments = << >>
    /\ ck_income = << >> /\ ck_expense = << >>

\* a batch run's load_category_mappings()
BatchLoad ==
    /\ MAPPINGS_FILE' = FileAfterLoad(MAPPINGS_FILE)
    /\ category_map' = load_category_mappings(MAPPINGS_FILE)
    /\ pc' = "loaded"
    /\ UNCHANGED <<fnVars, credit_csv, checking_csv, raw_df, checking_df,
                   df_spending, df_payments, ck_income, ck_expense, extVars>>

\* a run of the dashboard script with a cold cache
DashboardRun ==
    /\ mappings_dict' = load_mappings(MAPPINGS_FILE)
    /\ df_trans' = apply_mapping_overlay(df_trans, mappings_dict')
    /\ pc' = "shown"
    /\ UNCHANGED <<fnVars, category_map, batchVars, frame, amount_tolerance,
                   min_consecutive_months, kwargs, notes_df, NOTES_FILE,
                   new_mappings_df, hand_edits, tmp_file, exports>>

\* the Save Mappings button: the editor's rows, each with the category the
\* user picked, are written after the rows of the file, duplicates dropped
\* (the new rows alone when there is no file); the cache is cleared and the
\* script runs again
SaveMappings ==
    LET open == unreviewed_df(df_trans, mappings_dict)
    IN  /\ open # << >>
        /\ \E pick \in [1..Len(open) -> {"", "Games"}] :
              new_mappings_df' =
                  [i \in 1..Len(open) |->
                      [Clean_Description |-> open[i].Clean_Description,
                       Bank_Category     |-> open[i].Category,
                       Budget_Category   |-> IF pick[i] = ""
                                             THEN open[i].Budget_Category
                                             ELSE pick[i]]]
        /\ MAPPINGS_FILE' =
              IF MAPPINGS_FILE.exists
              THEN File(drop_duplicates(MAPPINGS_FILE.rows \o new_mappings_df'))
              ELSE File(new_mappings_df')
        /\ mappings_dict' = load_mappings(MAPPINGS_FILE')
        /\ df_trans' = apply_mapping_overlay(df_trans, mappings_dict')
        /\ pc' = "saved"
        /\ UNCHANGED <<fnVars, category_map, credit_csv, checking_csv, raw_df,
                       checking_df, df_spending, df_payments, ck_income,
                       ck_expense, frame, amount_tolerance,
                       min_consecutive_months, kwargs, notes_df, NOTES_FILE,
                       hand_edits, tmp_file, exports>>

\* the owner edits category_mappings.csv in an editor
HandEdit ==
    /\ MAPPINGS_FILE.exists
    /\ hand_edits < MaxHandEdits
    /\ \E e \in HandEdits :
          LET rows == MAPPINGS_FILE.rows
              k    == <<e[2], e[3]>>
              new  == [Clean_Description |-> e[2], Bank_Category |-> e[3],
                       Budget_Category |-> e[4]]
          IN  MAPPINGS_FILE' =
                 File(CASE e[1] = "set" ->
                             [i \in 1..Len(rows) |->
                                 IF KeyOf(rows[i]) = k
                                 THEN [rows[i] EXCEPT !.Budget_Category = e[4]]
                                 ELSE rows[i]]
                        [] e[1] = "append" ->
                             IF \E i \in 1..Len(rows) : KeyOf(rows[i]) = k
                             THEN Append(rows, new) ELSE rows
                        [] e[1] = "remove" ->
                             SelectSeq(rows, LAMBDA r : KeyOf(r) # k))
    /\ MAPPINGS_FILE' # MAPPINGS_FILE
    /\ hand_edits' = hand_edits + 1
    /\ pc' = "edited"
    /\ UNCHANGED <<fnVars, category_map, credit_csv, checking_csv, raw_df,
                   checking_df, df_spending, df_payments, ck_income,
                   ck_expense, frame, amount_tolerance,
                   min_consecutive_months, kwargs, notes_df, NOTES_FILE,
                   df_trans, mappings_dict, new_mappings_df, tmp_file, exports>>

SpecStore ==
    InitStore /\ [][BatchLoad \/ DashboardRun \/ SaveMappings \/ HandEdit]_vars

-----------------------------------------------------------------------------
(* transaction_notes.py: the key of a transaction, and the notes file.     *)
(* A date is a Timestamp, held as its year, month and day; an amount is a  *)
(* float, held in cents.  A notes table and the rows of                    *)
(* transaction_notes.csv are sequences of [_tx_key, Note, Tags].           *)

\* f"{date_str}::{merchant}::{amount}": the date through strftime
\* ("%Y-%m-%d"), the float through str (5.25, 5.0, 12.5, -3.0)
generate_tx_key(date, merchant, net_amount) ==
    LET pad(n) == IF n < 10 THEN "0" \o ToStr(n) ELSE ToStr(n)
        a == IF net_amount < 0 THEN -net_amount ELSE net_amount
        float == (IF net_amount < 0 THEN "-" ELSE "") \o ToStr(a \div 100) \o "."
                 \o ToStr((a \div 10) % 10)
                 \o (IF a % 10 = 0 THEN "" ELSE ToStr(a % 10))
    IN  ToStr(date.year) \o "-" \o pad(date.month) \o "-" \o pad(date.day)
        \o "::" \o merchant \o "::" \o float

\* add_tx_keys without the occurrence index: every key ends in ::0
add_tx_keys_NoOccurrence(df) ==
    [i \in 1..Len(df) |->
        [Transaction_Date  |-> df[i].Transaction_Date,
         Clean_Description |-> df[i].Clean_Description,
         Net_Amount        |-> df[i].Net_Amount,
         _tx_key |-> generate_tx_key(df[i].Transaction_Date,
                                     df[i].Clean_Description,
                                     df[i].Net_Amount) \o "::0"]]

\* add_tx_keys: base_key.groupby(base_key).cumcount() numbers the rows of
\* one base key 0, 1, 2, ... in row order
add_tx_keys(df) ==
    LET base_key == [i \in 1..Len(df) |->
                        generate_tx_key(df[i].Transaction_Date,
                                        df[i].Clean_Description,
                                        df[i].Net_Amount)]
        occurrence(i) == Cardinality({j \in 1..(i - 1) : base_key[j] = base_key[i]})
    IN  [i \in 1..Len(df) |->
            [Transaction_Date  |-> df[i].Transaction_Date,
             Clean_Description |-> df[i].Clean_Description,
             Net_Amount        |-> df[i].Net_Amount,
             _tx_key |-> base_key[i] \o "::" \o ToStr(occurrence(i))]]

\* the rows save_notes writes: Note and Tags stripped, the rows without
\* content dropped, then of the rows of one key the last one kept
save_notes(notes) ==
    LET strip(s) ==
            LET inked == {i \in 1..Len(s) : CharAt(s, i) # " "}
            IN  IF inked = {} THEN ""
                ELSE SubSeq(s, CHOOSE i \in inked : \A j \in inked : i <= j,
                               CHOOSE i \in inked : \A j \in inked : i >= j)
        df == [i \in 1..Len(notes) |->
                  [_tx_key |-> notes[i]._tx_key,
                   Note    |-> strip(notes[i].Note),
                   Tags    |-> strip(notes[i].Tags)]]
        content == SelectSeq(df, LAMBDA r : ~(r.Note = "" /\ r.Tags = ""))
        last == {i \in 1..Len(content) :
                    \A j \in (i + 1)..Len(content) :
                        content[j]._tx_key # content[i]._tx_key}
    IN  [n \in 1..Cardinality(last) |-> content[SortedSeq(last)[n]]]

\* load_notes: no file gives the empty table; read_csv(dtype=str) reads a
\* field that spells a missing value as NaN, which fillna turns into "";
\* a key with exactly two "::" gets "::0" appended
load_notes(file) ==
    IF ~file.exists THEN << >>
    ELSE LET na_values == {"", "#N/A", "#NA", "<NA>", "N/A", "NA", "NULL",
                           "NaN", "n/a", "nan", "null", "-NaN", "-nan"}
             field(x) == IF x \in na_values THEN "" ELSE x
             migrate(key) ==
                 LET a == FindFrom(key, "::", 1)
                     b == IF a = 0 THEN 0 ELSE FindFrom(key, "::", a + 2)
                     c == IF b = 0 THEN 0 ELSE FindFrom(key, "::", b + 2)
                 IN  IF b # 0 /\ c = 0 THEN key \o "::0" ELSE key
         IN  [i \in 1..Len(file.rows) |->
                 [_tx_key |-> migrate(field(file.rows[i]._tx_key)),
                  Note    |-> field(file.rows[i].Note),
                  Tags    |-> field(file.rows[i].Tags)]]

-----------------------------------------------------------------------------
(* Calls of transaction_notes.py: add_tx_keys on a table of transactions,  *)
(* and save_notes followed by load_notes on a notes table.                 *)

\* number of rows of the transaction table
MaxTx == 3

\* number of rows of the notes table
MaxNotes == 2

InitNotes ==
    /\ \/ /\ \E n \in 1..MaxTx :
                frame \in [1..n ->
                    [Transaction_Date  : {[year |-> 2024, month |-> 1, day |-> 15],
                                          [year |-> 2024, month |-> 12, day |-> 1]},
                     Clean_Description : {"Starbucks", "Starbucks::5.25"},
                     Net_Amount        : {525, 500}]]
          /\ notes_df = << >>
          /\ pc = "call"
       \/ /\ \E n \in 0..MaxNotes :
                notes_df \in [1..n ->
                    [_tx_key : {"2024-01-15::Starbucks::5.25::0",
                                "2024-01-15::Starbucks::5.25"},
                     Note    : {"", " Morning coffee ", "N/A"},
                     Tags    : {"", "Business"}]]
          /\ frame = << >>
          /\ pc = "notes"
    /\ NOTES_FILE \in
          {NoFile,
           File(<<[_tx_key |-> "2023-12-31::Peets::4.00::0", Note |-> "Old note",
                   Tags |-> "Personal"]>>)}
    /\ pc = "call" => NOTES_FILE = NoFile
    /\ ret = NoValue
    /\ amount_tolerance = 0 /\ min_consecutive_months = 0 /\ kwargs = << >>
    /\ df_trans = << >> /\ mappings_dict = << >> /\ new_mappings_df = << >>
    /\ hand_edits = 0
    /\ tmp_file = NoFile
    /\ exports = NoExports
    /\ IdleMain

CallAddTxKeys ==
    /\ pc = "call"
    /\ ret' = Returned(add_tx_keys(frame))
    /\ pc' = "done"
    /\ UNCHANGED <<description, amount, row, month_numbers, category_map,
                   batchVars, extVars>>

\* save_notes writing the table to the in-place target, chunk by chunk
SaveNotesWrite_InPlace ==
    /\ pc \in {"notes", "writing"}
    /\ LET new  == save_notes(notes_df)
           done == IF pc = "notes" THEN 0 ELSE Len(NOTES_FILE.rows) + 1
       IN  \E n \in done..Len(new) :
              /\ NOTES_FILE' = File(SubSeq(new, 1, n))
              /\ pc' = IF n = Len(new) THEN "written" ELSE "writing"
    /\ UNCHANGED <<fnVars, category_map, batchVars, frame, amount_tolerance,
                   min_consecutive_months, kwargs, notes_df, df_trans,
                   mappings_dict, new_mappings_df, hand_edits, tmp_file, exports>>

\* save_notes, lines 68-70: df.to_csv(tmp_file) creates or truncates
\* transaction_notes.csv.tmp and writes the table to it; the rows reach the
\* file in chunks, so every prefix of the table is a state of the file
SaveNotesWrite ==
    /\ pc \in {"notes", "writing"}
    /\ LET new  == save_notes(notes_df)
           done == IF pc = "notes" THEN 0 ELSE Len(tmp_file.rows) + 1
       IN  \E n \in done..Len(new) :
              /\ tmp_file' = File(SubSeq(new, 1, n))
              /\ pc' = IF n = Len(new) THEN "written" ELSE "writing"
    /\ UNCHANGED <<fnVars, category_map, batchVars, frame, amount_tolerance,
                   min_consecutive_months, kwargs, notes_df, NOTES_FILE, df_trans,
                   mappings_dict, new_mappings_df, hand_edits, exports>>

\* save_notes, line 71: tmp_file.replace(config.NOTES_FILE), one rename
SaveNotesReplace ==
    /\ pc = "written"
    /\ NOTES_FILE' = tmp_file
    /\ tmp_file' = NoFile
    /\ pc' = "saved"
    /\ UNCHANGED <<fnVars, category_map, batchVars, frame, amount_tolerance,
                   min_consecutive_months, kwargs, notes_df, df_trans,
                   mappings_dict, new_mappings_df, hand_edits, exports>>

\* the process dies while save_notes runs; the files stay as they are
CrashNotes ==
    /\ pc \in {"writing", "written"}
    /\ pc' = "crashed"
    /\ UNCHANGED <<fnVars, category_map, batchVars, extVars>>

\* load_notes on the file as it is: before a save, after a save, or on the
\* next start after a crash
LoadNotes ==
    /\ pc \in {"notes", "saved", "crashed"}
    /\ ret' = Returned(load_notes(NOTES_FILE))
    /\ pc' = CASE pc = "saved" -> "loaded"
              [] pc = "crashed" -> "recovered"
              [] OTHER -> "empty"
    /\ UNCHANGED <<description, amount, row, month_numbers, category_map,
                   batchVars, extVars>>

SpecNotes ==
    InitNotes /\ [][CallAddTxKeys \/ SaveNotesWrite \/ SaveNotesReplace
                     \/ CrashNotes \/ LoadNotes]_vars

-----------------------------------------------------------------------------
(* The two-tier reference for clean_merchant_name, stated position by      *)
(* position on the upper-cased description.                                *)

Min(S) == CHOOSE x \in S : \A y \in S : x <= y
Max(S) == CHOOSE x \in S : \A y \in S : x >= y

\* the keyword entries whose key occurs somewhere in u
KeysIn(u) ==
    {i \in 1..Len(keyword_map) :
        \E k \in 0..Len(u) : MatchAt(u, k + 1, keyword_map[i][1])}

\* the lengths n such that the first n characters of u are a processor
\* name, white space, a star and white space, and the match cannot be
\* extended by further white space
ProcessorPrefixes(u) ==
    {n \in 1..Len(u) :
        /\ \E p \in {PROCESSORS[i] : i \in 1..Len(PROCESSORS)} :
             \E j \in (Len(p) + 1)..n :
                /\ MatchAt(u, 1, p)
                /\ CharAt(u, j) = "*"
                /\ \A k \in ((Len(p) + 1)..n) \ {j} : IsSpace(CharAt(u, k))
        /\ n = Len(u) \/ ~IsSpace(CharAt(u, n + 1))}

RefUnprefixed(u) ==
    IF ProcessorPrefixes(u) = {} THEN u
    ELSE SubSeq(u, Max(ProcessorPrefixes(u)) + 1, Len(u))

\* s up to the first occurrence of sep
RefCut(s, sep) ==
    LET hits == {i \in 1..Len(s) : MatchAt(s, i, sep)}
    IN  IF hits = {} THEN s ELSE SubSeq(s, 1, Min(hits) - 1)

\* the text that is left after prefix removal and the two truncations
RefTruncated(u) == RefCut(RefCut(RefUnprefixed(u), " - "), " #")

\* what position i of t contributes to the collapsed, title-cased name
RefEmit(t, i) ==
    LET c == CharAt(t, i)
    IN  IF IsSpace(c)
        THEN IF /\ i > 1
                /\ ~IsSpace(CharAt(t, i - 1))
                /\ \E j \in (i + 1)..Len(t) : ~IsSpace(CharAt(t, j))
             THEN " " ELSE ""
        ELSE IF ~IsCased(c) THEN c
        ELSE IF i > 1 /\ IsCased(CharAt(t, i - 1)) THEN LowerChar(c)
        ELSE UpperChar(c)

RECURSIVE RefEmitUpTo(_, _)
RefEmitUpTo(t, n) ==
    IF n = 0 THEN "" ELSE RefEmitUpTo(t, n - 1) \o RefEmit(t, n)

RefCleanMerchantName(d) ==
    LET u == Upper(d)
    IN  IF KeysIn(u) # {} THEN keyword_map[Min(KeysIn(u))][2]
        ELSE RefEmitUpTo(RefTruncated(u), Len(RefTruncated(u)))

\* the last character of s that is not white space, "" when there is none
LastNonSpace(s) ==
    LET idx == {i \in 1..Len(s) : ~IsSpace(CharAt(s, i))}
    IN  IF idx = {} THEN "" ELSE CharAt(s, Max(idx))

LastChar(s) == IF s = "" THEN "" ELSE CharAt(s, Len(s))

TrailingPunctuation == {".", ",", ";"}

Cleaned == pc = "done"

\* C7: clean_merchant_name equals the two-tier reference: the first keyword
\* of the table (insertion order) found in the upper-cased description
\* decides, 'COSTCO GAS' gives 'Costco' and AMZN/AMAZON give 'Amazon'
\* whatever else matches; with no keyword the processor prefix is removed,
\* the text is cut at the first ' - ' and then at the first ' #', white
\* space is collapsed and the result is title-cased.
C7_CleanMerchantIsTwoTierReference ==
    Cleaned =>
        /\ ret = RefCleanMerchantName(description)
        /\ (In("AMZN", Upper(description)) \/ In("AMAZON", Upper(description)))
               => ret = "Amazon"
        /\ description = "COSTCO GAS" => ret = "Costco"

\* a description in which a later key (COSTCO) also matches, resolved by the
\* first key (AMZN)
C7_Witness ==
    /\ Cleaned
    /\ description = "amznCOSTCO"
    /\ ret = "Amazon"

\* C8 as stated: with no keyword match the result never ends with a period,
\* a comma or a semicolon.
C8_TrailingPunctuationStripped ==
    (Cleaned /\ KeysIn(Upper(description)) = {})
        => LastChar(ret) \notin TrailingPunctuation

\* C8 as amended: with no keyword match trailing punctuation is kept: the
\* result ends with the last non-blank character of the truncated text, so
\* it ends with a period, comma or semicolon exactly when that text does.
C8_TrailingPunctuationKept ==
    (Cleaned /\ KeysIn(Upper(description)) = {})
        => LET t == RefTruncated(Upper(description))
           IN  /\ UpperChar(LastChar(ret)) = LastNonSpace(t)
               /\ LastChar(ret) \in TrailingPunctuation
                     <=> LastNonSpace(t) \in TrailingPunctuation

C8_Witness ==
    /\ Cleaned
    /\ description = "SQ*bar."
    /\ ret = "Bar."

\* C9 as stated: the result is never empty; when prefix removal and
\* truncation leave nothing, the upper-cased input is returned instead.
C9_NeverEmpty ==
    (Cleaned /\ description # "") =>
        /\ ret # ""
        /\ LastNonSpace(RefTruncated(Upper(description))) = ""
              => ret = Upper(description)

-----------------------------------------------------------------------------
(* Category resolution.                                                    *)

Mapped == pc = "done"

RowKey == <<row.Clean_Description, row.Category>>

\* the utility groups (by position) with a keyword in the lower-cased name
UtilityGroupsIn(name) ==
    {i \in 1..Len(UTILITY_RULES) :
        \E n \in 1..Len(UTILITY_RULES[i][1]) :
            \E k \in 0..Len(name) : MatchAt(Lower(name), k + 1, UTILITY_RULES[i][1][n])}

HasWord(name, w) == \E k \in 0..Len(name) : MatchAt(Lower(name), k + 1, w)

\* what rules 2 to 5 give for a row, stated rule by rule
RefCascade(r) ==
    IF r.Category \in DOMAIN BANK_CATEGORY_FALLBACK
    THEN BANK_CATEGORY_FALLBACK[r.Category]
    ELSE IF r.Category = "Bills & Utilities" /\ UtilityGroupsIn(r.Clean_Description) # {}
    THEN UTILITY_RULES[Min(UtilityGroupsIn(r.Clean_Description))][2]
    ELSE IF HasWord(r.Clean_Description, "gas") \/ HasWord(r.Clean_Description, "fuel")
    THEN "Gas"
    ELSE IF HasWord(r.Clean_Description, "food") \/ HasWord(r.Clean_Description, "restaurant")
    THEN "Restaurants"
    ELSE "Personal"

\* C1: override precedence: a (Clean_Description, Category) pair that is a
\* key of the override table resolves to exactly the table's value,
\* whatever the fallback cascade would have produced.
C1_OverridePrecedence ==
    (Mapped /\ RowKey \in DOMAIN category_map) => ret = category_map[RowKey]

\* an overridden pair for which the cascade would have said something else
C1_Witness ==
    /\ Mapped
    /\ RowKey \in DOMAIN category_map
    /\ RefCascade(row) # category_map[RowKey]
    /\ ret = category_map[RowKey]

\* C3: with no override for the pair the cascade is applied in order and
\* the first applicable rule wins: bank-category fallback, then (for Bills &
\* Utilities) the first matching group among electricity, water/trash,
\* internet, phone, then gas/fuel before food/restaurant, then Personal;
\* keyword tests ignore the case of the merchant name.
C3_CascadeInOrder ==
    (Mapped /\ RowKey \notin DOMAIN category_map) =>
        /\ ret = RefCascade(row)
        /\ row.Category \in DOMAIN BANK_CATEGORY_FALLBACK
              => ret = BANK_CATEGORY_FALLBACK[row.Category]
        /\ (/\ row.Category \notin DOMAIN BANK_CATEGORY_FALLBACK
            /\ ~(row.Category = "Bills & Utilities"
                   /\ UtilityGroupsIn(row.Clean_Description) # {})
            /\ HasWord(row.Clean_Description, "gas"))
              => ret = "Gas"

\* a Bills & Utilities row whose name holds a phone keyword and a generic
\* keyword in upper case: the utility group decides
C3_Witness ==
    /\ Mapped
    /\ RowKey \notin DOMAIN category_map
    /\ row = [Clean_Description |-> "VerizonFUEL", Category |-> "Bills & Utilities"]
    /\ ret = "Phone Bill"

-----------------------------------------------------------------------------
(* Checking classification.                                                *)

Classified == pc = "done"

HasAny(keywords, text) ==
    \E n \in 1..Len(keywords) : \E k \in 0..Len(text) : MatchAt(text, k + 1, keywords[n])

\* C4: classify_checking_transaction is a total ordered cascade: a transfer
\* keyword in the upper-cased description gives 'transfer' whatever the
\* income keywords and the sign; otherwise an income keyword gives 'income'
\* whatever the sign; otherwise a strictly positive raw amount gives
\* 'income' and a zero or negative one 'expense'.
C4_ClassifyCascade ==
    Classified =>
        LET u == Upper(description)
        IN  /\ ret \in {"transfer", "income", "expense"}
            /\ HasAny(TRANSFER_KEYWORDS, u) => ret = "transfer"
            /\ (~HasAny(TRANSFER_KEYWORDS, u) /\ HasAny(INCOME_KEYWORDS, u))
                  => ret = "income"
            /\ (~HasAny(TRANSFER_KEYWORDS, u) /\ ~HasAny(INCOME_KEYWORDS, u))
                  => ret = (IF amount > 0 THEN "income" ELSE "expense")

\* a deposit-shaped transfer with a positive amount
C4_Witness ==
    /\ Classified
    /\ description = "transfer deposit"
    /\ amount > 0
    /\ ret = "transfer"

-----------------------------------------------------------------------------
(* Longest consecutive run.                                                *)

RunDone == pc = "done"

\* the lengths of the blocks m[i..j] in which every number is its
\* predecessor plus 1
BlockLengths(m) ==
    {j - i + 1 : i \in 1..Len(m), j \in 1..Len(m)} \cap
    {n \in 1..Len(m) :
        \E i \in 1..(Len(m) - n + 1) :
            \A k \in i..(i + n - 2) : m[k + 1] = m[k] + 1}

\* C10: for a strictly increasing list of month numbers the function
\* returns the length of the longest block of consecutive numbers: 0 for the
\* empty list, 1 for a single month or when no two months are adjacent,
\* never more than the length of the list.
C10_LongestConsecutiveRun ==
    RunDone =>
        /\ ret = (IF month_numbers = << >> THEN 0 ELSE Max(BlockLengths(month_numbers)))
        /\ ret <= Len(month_numbers)
        /\ (/\ month_numbers # << >>
            /\ \A k \in 1..(Len(month_numbers) - 1) :
                   month_numbers[k + 1] # month_numbers[k] + 1)
              => ret = 1

\* two runs separated by a gap, the longer one last
C10_Witness ==
    /\ RunDone
    /\ month_numbers = <<1, 2, 4, 5, 6>>
    /\ ret = 3

-----------------------------------------------------------------------------
(* The batch run.                                                          *)

\* the input rows (by index) that a stream holds
Indices(stream) == {stream[i].idx : i \in 1..Len(stream)}

CreditDone == pc \in {"checking", "done"}

\* C2 as stated: every category the run assigns, whatever the override
\* table was loaded from, is a member of BUDGET_CATEGORIES.
C2_ResolutionTotal ==
    /\ \A i \in 1..Len(df_spending) : df_spending[i].Budget_Category \in BUDGET_CATEGORIES
    /\ \A i \in 1..Len(ck_expense) : ck_expense[i].Budget_Category \in BUDGET_CATEGORIES

CheckingType(j) ==
    IF HasAny(TRANSFER_KEYWORDS, Upper(checking_csv[j].Description)) THEN "transfer"
    ELSE IF HasAny(INCOME_KEYWORDS, Upper(checking_csv[j].Description)) THEN "income"
    ELSE IF to_numeric(checking_csv[j].Amount) > 0 THEN "income"
    ELSE "expense"

\* C5: no checking row classified 'transfer' appears in any output stream:
\* the income stream holds only rows classified 'income', the
\* checking-expense stream only rows classified 'expense', and the
\* credit-card streams hold no checking row.
C5_TransfersInNoStream ==
    /\ \A j \in Indices(ck_income) : CheckingType(j) = "income"
    /\ \A j \in Indices(ck_expense) : CheckingType(j) = "expense"
    /\ \A i \in 1..Len(df_spending) : df_spending[i].account_type = "credit"
    /\ \A i \in 1..Len(df_payments) : df_payments[i].account_type = "credit"
    /\ \A j \in 1..Len(checking_csv) :
          CheckingType(j) = "transfer" => j \notin Indices(ck_income) \cup Indices(ck_expense)

\* a run over a debit-side transfer and a card purchase: only the purchase
\* is exported
C5_Witness ==
    /\ pc = "done"
    /\ Len(checking_csv) = 2
    /\ CheckingType(1) = "transfer"
    /\ to_numeric(checking_csv[1].Amount) < 0
    /\ Indices(ck_expense) = {2}
    /\ ck_income = << >>

\* C6 as stated, the phrases looked for in the description as it is written
C6_PaymentSplitAsWritten ==
    CreditDone =>
        \A j \in 1..Len(credit_csv) :
            LET payment == HasAny(PAYMENT_TERMS, credit_csv[j].Description)
            IN  /\ j \in Indices(df_payments) <=> payment
                /\ j \in Indices(df_spending)
                      <=> (~payment /\ to_numeric(credit_csv[j].Amount) * (-1) > 0)

\* C6 as amended: a credit-card row is in the payment stream exactly when
\* its description contains, letter case ignored, one of the four payment
\* phrases; it is in the spending stream exactly when it is not a payment
\* and its normalized amount is strictly positive; the streams are
\* disjoint and a non-payment row with a zero or negative normalized amount
\* is in neither.
C6_PaymentSplitIgnoringCase ==
    CreditDone =>
        /\ Indices(df_payments) \cap Indices(df_spending) = {}
        /\ \A j \in 1..Len(credit_csv) :
            LET payment == HasAny(PAYMENT_TERMS, Upper(credit_csv[j].Description))
                norm == to_numeric(credit_csv[j].Amount) * (-1)
            IN  /\ j \in Indices(df_payments) <=> payment
                /\ j \in Indices(df_spending) <=> (~payment /\ norm > 0)
                /\ (~payment /\ norm <= 0)
                      => j \notin Indices(df_payments) \cup Indices(df_spending)

\* a mixed-case payment of positive normalized amount beside a zero-amount
\* purchase: the first is a payment only, the second is in neither stream
C6_Witness ==
    /\ CreditDone
    /\ Len(credit_csv) = 2
    /\ credit_csv[1] = [Transaction_Date |-> "01/15/2024",
                        Description |-> "Payment Thank You-Mobile",
                        Category |-> "Uncategorized", Amount |-> "-5"]
    /\ credit_csv[2].Description = "COSTCO WHSE #12"
    /\ credit_csv[2].Amount = "0"
    /\ Indices(df_payments) = {1}
    /\ df_spending = << >>

-----------------------------------------------------------------------------
(* Claims about detect_recurring_merchants.                                *)

RECURSIVE SumOver(_, _)
SumOver(f, S) ==
    IF S = {} THEN 0
    ELSE LET x == CHOOSE y \in S : TRUE
         IN  f[x] + SumOver(f, S \ {x})

RecurringDone == pc = "done" /\ ret.raised = ""

\* the rows of merchant m, its active months, and the total and the number
\* of its charges in month k, read off the input
RowsOfMerchant(m) == {i \in 1..Len(frame) : frame[i].Clean_Description = m}
ActiveMonths(m) == {frame[i].Transaction_Date.month : i \in RowsOfMerchant(m)}
RowsInMonth(m, k) == {i \in RowsOfMerchant(m) : frame[i].Transaction_Date.month = k}
TotalInMonth(m, k) == SumOver([i \in 1..Len(frame) |-> frame[i].Net_Amount], RowsInMonth(m, k))

\* sum over the active months of (n * total - sum of totals)^2, which is
\* n^2 times the sum of the squared deviations from the mean
SquaredDeviations(m) ==
    LET M == ActiveMonths(m)
        n == Cardinality(M)
        S == SumOver([k \in M |-> TotalInMonth(m, k)], M)
    IN  SumOver([k \in M |-> (n * TotalInMonth(m, k) - S) * (n * TotalInMonth(m, k) - S)], M)

\* all filters pass on merchant m
MeetsCriteria(m) ==
    LET M == ActiveMonths(m)
        n == Cardinality(M)
    IN  /\ n >= min_consecutive_months
        /\ \E a \in 1..LastMonth :
              \A k \in a..(a + min_consecutive_months - 1) : k \in M
        /\ n >= 2 => SquaredDeviations(m) <=
                        amount_tolerance * amount_tolerance * n * n * (n - 1)
        /\ SumOver([k \in M |-> Cardinality(RowsInMonth(m, k))], M) <= 2 * n

\* C11: detect_recurring_merchants returns a record for a merchant exactly
\* when the merchant has at least min_consecutive_months active months, a
\* run of at least min_consecutive_months consecutive months, a sample
\* standard deviation of its monthly totals of at most amount_tolerance
\* (none with a single month) and at most 2 transactions per active month
\* on average; there is one record per such merchant, and a merchant
\* charged in the months 1 to 4 is reported with Consecutive_Months 4.
C11_RecurringExactlyWhenFiltersPass ==
    RecurringDone =>
        /\ {r.Clean_Description : r \in ret.value}
              = {m \in {frame[i].Clean_Description : i \in 1..Len(frame)} : MeetsCriteria(m)}
        /\ \A r, q \in ret.value : r.Clean_Description = q.Clean_Description => r = q
        /\ \A r \in ret.value :
              /\ r.Months_Active = Cardinality(ActiveMonths(r.Clean_Description))
              /\ ActiveMonths(r.Clean_Description) = 1..4 => r.Consecutive_Months = 4

\* the same amount once a month for 4 consecutive months: the merchant is
\* reported, with a run of 4
C11_Witness ==
    /\ RecurringDone
    /\ amount_tolerance = 200 /\ min_consecutive_months = 2
    /\ \A i \in 1..Len(frame) : frame[i].Net_Amount = 1599
    /\ Len(frame) = 4
    /\ \E r \in ret.value : r.Clean_Description = "Netflix" /\ r.Consecutive_Months = 4

\* C12: a merchant visited 5 times a month for 3 consecutive months with
\* identical monthly totals is left out by the default call and is
\* reported when the call passes max_monthly_frequency = 10.0.
C12_MaxMonthlyFrequencyParameter ==
    (/\ pc = "done"
     /\ amount_tolerance = 200 /\ min_consecutive_months = 2
     /\ ActiveMonths("Netflix") = 1..3
     /\ \A k \in 1..3 : /\ Cardinality(RowsInMonth("Netflix", k)) = 5
                        /\ TotalInMonth("Netflix", k) = 5000)
    => /\ ret.raised = ""
       /\ ("Netflix" \in {r.Clean_Description : r \in ret.value})
             <=> (DOMAIN kwargs # {} /\ kwargs.max_monthly_frequency = 10)

\* C13: in every record Annual_Projected is exactly 12 times the reported
\* Monthly_Amount.
C13_AnnualIsTwelveTimesMonthly ==
    RecurringDone =>
        \A r \in ret.value : r.Annual_Projected = 12 * r.Monthly_Amount

-----------------------------------------------------------------------------
(* Claims about detect_subscription_changes.                               *)

ChangesDone == pc = "done" /\ ret.raised = ""

WindowMonths == {frame[i].Transaction_Date.month : i \in 1..Len(frame)}

\* the earlier half: the floor(n/2) smallest of the n active months
EarlierHalf ==
    {m \in WindowMonths :
        Cardinality({k \in WindowMonths : k < m}) < Cardinality(WindowMonths) \div 2}

LaterHalf == WindowMonths \ EarlierHalf

\* the Monthly_Amount detect_recurring_merchants reports for merchant m on
\* the transactions of the given months, for either rounding of a half
\* cent; empty when m is not recurring there
AmountsIn(m, months) ==
    LET part == SelectSeq(frame, LAMBDA r : r.Transaction_Date.month \in months)
    IN  {r.Monthly_Amount :
            r \in {q \in detect_recurring_merchants(part, amount_tolerance, 2, {})
                         \cup detect_recurring_merchants(part, amount_tolerance, 2,
                                                         HalfCents(part)) :
                     q.Clean_Description = m}}

AlertsOf(m, types) ==
    {i \in 1..Len(ret.value) : ret.value[i].merchant = m /\ ret.value[i].type \in types}

\* C14: detect_subscription_changes returns the empty list, and raises
\* nothing, when the input is empty or has fewer than 3 distinct months.
C14_ShortWindowNoAlerts ==
    (pc = "done" /\ Cardinality(WindowMonths) < 3) => ret = Returned(<< >>)

\* two active months with a recurring merchant: no alert
C14_Witness ==
    /\ pc = "done"
    /\ Cardinality(WindowMonths) = 2
    /\ \E a \in 1..MaxWindow : WindowMonths = {a, a + 1}
    /\ \A i \in 1..Len(frame) : frame[i].Net_Amount = 999
    /\ ret = Returned(<< >>)

C16_PriceAlertBeyondTolerance ==
    (ChangesDone /\ Cardinality(WindowMonths) >= 3) =>
        \A m \in {frame[i].Clean_Description : i \in 1..Len(frame)} :
            LET old == AmountsIn(m, EarlierHalf)
                new == AmountsIn(m, LaterHalf)
                price == AlertsOf(m, {"price_increase", "price_decrease"})
            IN  /\ Cardinality(price) <= 1
                /\ (old = {} \/ new = {}) => price = {}
                /\ \A i \in price :
                      LET a == ret.value[i]
                      IN  /\ a.old_amount \in {<<x>> : x \in old}
                          /\ a.new_amount \in {<<x>> : x \in new}
                          /\ Abs(a.new_amount[1] - a.old_amount[1]) > amount_tolerance
                          /\ a.type = IF a.new_amount[1] > a.old_amount[1]
                                      THEN "price_increase" ELSE "price_decrease"
                /\ (old # {} /\ new # {} /\ price = {})
                      => \E x \in old, y \in new : Abs(y - x) <= amount_tolerance

\* 9.99 in the earlier half and 11.99 in the later, tolerance 2.00: the
\* difference equals the tolerance and there is no alert
C16_Witness ==
    /\ ChangesDone
    /\ amount_tolerance = 200
    /\ AmountsIn("New Service", EarlierHalf) = {999}
    /\ AmountsIn("New Service", LaterHalf) = {1199}
    /\ AlertsOf("New Service", {"new", "cancelled", "price_increase", "price_decrease"}) = {}

-----------------------------------------------------------------------------
(* The override store under dashboard saves, batch loads and hand edits.   *)

\* C17: a Save Mappings step leaves at most one row per (Clean_Description,
\* Bank_Category) key in category_mappings.csv, every key among the saved rows
\* then reads as the Budget_Category that save gave it, and every key of the
\* file that is not among the saved rows reads as it did before the save.
C17_SaveMappingsUpserts ==
    [][(pc # "saved" /\ pc' = "saved") =>
          LET before  == load_mappings(MAPPINGS_FILE)
              rows    == MAPPINGS_FILE'.rows
              after   == load_mappings(MAPPINGS_FILE')
              written == RowsToDict(new_mappings_df')
          IN  /\ \A i, j \in 1..Len(rows) :
                    KeyOf(rows[i]) = KeyOf(rows[j]) => i = j
              /\ \A k \in DOMAIN written :
                    k \in DOMAIN after /\ after[k] = written[k]
              /\ \A k \in DOMAIN before \ DOMAIN written :
                    k \in DOMAIN after /\ after[k] = before[k]]_vars

\* a save has replaced the seeded row of Costco / Groceries (which the batch
\* had loaded as Groceries) by the category picked in the editor
C17_Witness ==
    /\ pc = "saved"
    /\ <<"Costco", "Groceries">> \in DOMAIN category_map
    /\ category_map[<<"Costco", "Groceries">>] = "Groceries"
    /\ \E i \in 1..Len(new_mappings_df) :
          /\ KeyOf(new_mappings_df[i]) = <<"Costco", "Groceries">>
          /\ new_mappings_df[i].Budget_Category = "Games"
    /\ Len(MAPPINGS_FILE.rows) > Len(new_mappings_df)
    /\ mappings_dict[<<"Costco", "Groceries">>] = "Games"

\* C18: load_category_mappings writes the seed rows only when the file does
\* not exist; a load of an existing file leaves it unchanged and returns
\* exactly its rows; and while nobody has edited the file by hand, what a
\* batch load returns contains every seed key.
C18_SeededExactlyOnce ==
    /\ [][pc' = "loaded" =>
             IF MAPPINGS_FILE.exists
             THEN /\ MAPPINGS_FILE' = MAPPINGS_FILE
                  /\ category_map' = RowsToDict(MAPPINGS_FILE.rows)
             ELSE /\ MAPPINGS_FILE' = File(SeedRows)
                  /\ category_map' = RowsToDict(SeedRows)]_vars
    /\ []((pc = "loaded" /\ hand_edits = 0) =>
             \A i \in 1..Len(SeedRows) : KeyOf(SeedRows[i]) \in DOMAIN category_map)

-----------------------------------------------------------------------------
(* Transaction keys and the notes file.                                    *)

\* the rows before row i of the table that share its date, merchant and amount
EarlierTwins(i) ==
    {j \in 1..(i - 1) :
        /\ frame[j].Transaction_Date = frame[i].Transaction_Date
        /\ frame[j].Clean_Description = frame[i].Clean_Description
        /\ frame[j].Net_Amount = frame[i].Net_Amount}

\* C19: add_tx_keys gives the rows of a table pairwise distinct keys: the key
\* of a row is its base key (date::merchant::amount) followed by :: and the
\* number of earlier rows with the same date, merchant and amount, so
\* duplicates are numbered 0, 1, 2, ... in input order and a row without a
\* duplicate gets 0.
C19_DistinctTransactionKeys ==
    pc = "done" =>
        /\ ret.raised = ""
        /\ Len(ret.value) = Len(frame)
        /\ \A i, j \in 1..Len(frame) :
              ret.value[i]._tx_key = ret.value[j]._tx_key => i = j
        /\ \A i \in 1..Len(frame) :
              ret.value[i]._tx_key =
                  generate_tx_key(frame[i].Transaction_Date,
                                  frame[i].Clean_Description,
                                  frame[i].Net_Amount)
                  \o "::" \o ToStr(Cardinality(EarlierTwins(i)))

\* three identical purchases got the keys ...::0, ...::1 and ...::2, and
\* in another table a single purchase at a merchant whose name itself holds
\* "::" got ...::0
C19_Witness ==
    /\ pc = "done"
    /\ Len(frame) = 3
    /\ Cardinality(EarlierTwins(3)) = 2
    /\ ret.value[1]._tx_key = "2024-01-15::Starbucks::5.25::0"
    /\ ret.value[2]._tx_key = "2024-01-15::Starbucks::5.25::1"
    /\ ret.value[3]._tx_key = "2024-01-15::Starbucks::5.25::2"

\* str.strip() of a note or a tag list
RECURSIVE Trimmed(_)
Trimmed(s) ==
    IF s = "" THEN ""
    ELSE IF Head(s) = " " THEN Trimmed(Tail(s))
    ELSE IF CharAt(s, Len(s)) = " " THEN Trimmed(SubSeq(s, 1, Len(s) - 1))
    ELSE s

\* the rows of the saved table that have a note or tags
WithContent ==
    {i \in 1..Len(notes_df) :
        Trimmed(notes_df[i].Note) # "" \/ Trimmed(notes_df[i].Tags) # ""}

\* C20: save_notes followed by load_notes returns exactly one row for every
\* key that has a row with a non-blank Note or non-blank Tags in the saved
\* table, carrying the trimmed Note and Tags of the last such row, and no
\* row for any other key.
C20_NotesRoundTrip ==
    pc = "loaded" =>
        LET out == ret.value
            keys == {notes_df[i]._tx_key : i \in WithContent}
            last(k) == CHOOSE i \in WithContent :
                          /\ notes_df[i]._tx_key = k
                          /\ \A j \in WithContent :
                                notes_df[j]._tx_key = k => j <= i
        IN  /\ \A n \in 1..Len(out) : out[n]._tx_key \in keys
            /\ \A k \in keys :
                  /\ Cardinality({n \in 1..Len(out) : out[n]._tx_key = k}) = 1
                  /\ \A n \in 1..Len(out) :
                        out[n]._tx_key = k =>
                           /\ out[n].Note = Trimmed(notes_df[last(k)].Note)
                           /\ out[n].Tags = Trimmed(notes_df[last(k)].Tags)

-----------------------------------------------------------------------------
(* The batch run and the store it reads.                                   *)

\* C23: in a finished run that exported credit-card spending rows and
\* checking-expense rows, both streams were classified with one and the same
\* table: the table the checking expenses were resolved with also gives
\* every spending row its category.
C23_OneSnapshotPerRun ==
    (pc = "done" /\ df_spending # << >> /\ ck_expense # << >>) =>
        /\ \A i \in 1..Len(ck_expense) :
              ck_expense[i].Budget_Category = map_category(ck_expense[i], category_map)
        /\ \A i \in 1..Len(df_spending) :
              df_spending[i].Budget_Category = map_category(df_spending[i], category_map)

\* C25: every row of the income stream has a strictly positive raw amount,
\* every row of the checking-expense stream a strictly negative one, and in
\* both streams Net_Amount is strictly positive and the absolute value of
\* the raw amount.
C25_SignConventionNeverMixed ==
    pc = "done" =>
        /\ \A i \in 1..Len(ck_income) :
              /\ ck_income[i].Raw_Amount > 0
              /\ ck_income[i].Net_Amount > 0
              /\ ck_income[i].Net_Amount = Abs(ck_income[i].Raw_Amount)
        /\ \A i \in 1..Len(ck_expense) :
              LET raw == to_numeric(checking_csv[ck_expense[i].idx].Amount)
              IN  /\ raw < 0
                  /\ ck_expense[i].Net_Amount > 0
                  /\ ck_expense[i].Net_Amount = Abs(raw)

\* the (merchant, bank category) pairs the Manage Categories tab lists for
\* the given transactions and table
Listed(df, dict) ==
    LET open == unreviewed_df(df, dict)
    IN  {<<open[i].Clean_Description, open[i].Category>> : i \in 1..Len(open)}

\* C26: when Save Mappings is pressed, the pairs listed as unreviewed are
\* exactly the pairs of the transactions that are no key of the loaded
\* table; after the save and the reload none of them is listed any more and
\* every transaction of such a pair carries the category saved for the pair.
C26_FeedbackLoop ==
    [][(pc # "saved" /\ pc' = "saved") =>
          LET listed == Listed(df_trans, mappings_dict)
              saved  == RowsToDict(new_mappings_df')
          IN  /\ listed = {<<df_trans[i].Clean_Description, df_trans[i].Category>> :
                              i \in 1..Len(df_trans)} \ DOMAIN mappings_dict
              /\ DOMAIN saved = listed
              /\ Listed(df_trans', mappings_dict') \cap listed = {}
              /\ Len(df_trans') = Len(df_trans)
              /\ \A i \in 1..Len(df_trans') :
                    LET k == <<df_trans'[i].Clean_Description, df_trans'[i].Category>>
                    IN  /\ k = <<df_trans[i].Clean_Description, df_trans[i].Category>>
                        /\ k \in listed =>
                              df_trans'[i].Budget_Category = saved[k]]_vars

\* a save gave both transactions of Mystery Store / Shopping, until then
\* Personal by default, the category Games, and nothing is left to review
C26_Witness ==
    /\ pc = "saved"
    /\ Len(df_trans) = 4
    /\ df_trans[2].Clean_Description = "Mystery Store"
    /\ df_trans[2].Budget_Category = "Games"
    /\ df_trans[4].Budget_Category = "Games"
    /\ Listed(df_trans, mappings_dict) = {}
    /\ \E i \in 1..Len(new_mappings_df) :
          KeyOf(new_mappings_df[i]) = <<"Mystery Store", "Shopping">>

-----------------------------------------------------------------------------
(* Alerts and the halves of the window.                                    *)

\* C28: a merchant that gets a 'cancelled' alert ('No longer appears') has
\* no transaction in any month of the later half of the window.
C28_CancelledMeansAbsent ==
    ChangesDone =>
        \A i \in 1..Len(ret.value) :
            ret.value[i].type = "cancelled" =>
                /\ MatchAt(ret.value[i].detail, 1, "No longer appears")
                /\ \A j \in 1..Len(frame) :
                      frame[j].Clean_Description = ret.value[i].merchant
                         => frame[j].Transaction_Date.month \notin LaterHalf

-----------------------------------------------------------------------------
(* Month numbers across the turn of the year.                              *)

\* the longest run of consecutive month numbers among the active months of
\* merchant m, December and January not being neighbours
LongestRun(m) ==
    LET M == ActiveMonths(m)
        runs == {n \in 1..LastMonth :
                    \E a \in 1..LastMonth : \A k \in a..(a + n - 1) : k \in M}
    IN  CHOOSE n \in runs : \A q \in runs : q <= n

\* C29: with the default parameters a merchant charged only in December and
\* January is not reported, whatever the years; a reported merchant's run
\* of consecutive months never joins December to January; and a merchant is
\* judged and reported on its totals per month number, the charges of one
\* month number in different years making one total.
C29_NoWrapAroundMonthOfYear ==
    (RecurringDone /\ amount_tolerance = 200 /\ min_consecutive_months = 2) =>
        /\ \A m \in {frame[i].Clean_Description : i \in 1..Len(frame)} :
              ActiveMonths(m) = {1, LastMonth}
                 => \A r \in ret.value : r.Clean_Description # m
        /\ \A m \in {frame[i].Clean_Description : i \in 1..Len(frame)} :
              MeetsCriteria(m) => \E r \in ret.value : r.Clean_Description = m
        /\ \A r \in ret.value :
              LET m == r.Clean_Description
                  months == SortedSeq(ActiveMonths(m))
                  median2 == Median2([n \in 1..Len(months) |->
                                         TotalInMonth(m, months[n])])
              IN  /\ r.Months_Active = Len(months)
                  /\ r.Consecutive_Months = LongestRun(m)
                  /\ r.Monthly_Amount \in {Round2(median2, {}),
                                           Round2(median2, {median2})}

\* a merchant charged in December 2024 and January 2025 only is not
\* reported
C29_Witness ==
    /\ RecurringDone
    /\ amount_tolerance = 200 /\ min_consecutive_months = 2
    /\ ActiveMonths("Gym") = {1, LastMonth}
    /\ \E i, j \in RowsOfMerchant("Gym") :
          /\ frame[i].Transaction_Date = [year |-> 2024, month |-> LastMonth]
          /\ frame[j].Transaction_Date = [year |-> 2025, month |-> 1]
    /\ \A r \in ret.value : r.Clean_Description # "Gym"

-----------------------------------------------------------------------------
(* A crash in the middle of save_notes.                                    *)

\* C22: save_notes is atomic with respect to crashes: every step of a save,
\* and a crash at any point of it, either leaves transaction_notes.csv (the
\* file load_notes reads) with its previous contents or gives it the
\* complete new table; load_notes after a crash returns one of these two
\* tables, never a part of the new one.
C22_SaveNotesCrashAtomic ==
    [][/\ \/ NOTES_FILE' = NOTES_FILE
          \/ NOTES_FILE' = File(save_notes(notes_df))
       /\ pc' = "recovered" =>
             ret'.value \in {load_notes(NOTES_FILE),
                             load_notes(File(save_notes(notes_df)))}]_vars

\* the process died after the temporary file was written completely and
\* before the rename; the notes file still holds the older, different table
C22_Witness ==
    /\ pc = "recovered"
    /\ tmp_file.exists
    /\ Len(tmp_file.rows) = 2
    /\ tmp_file.rows = save_notes(notes_df)
    /\ NOTES_FILE.exists
    /\ NOTES_FILE.rows # tmp_file.rows
    /\ ret.value = load_notes(NOTES_FILE)

-----------------------------------------------------------------------------
(* The batch run on malformed and on repeated statement rows.              *)

\* the cell spells a number / a date
SpellsNumber(cell) == to_numeric(cell) # 0 \/ cell = "0"
SpellsDate(cell) == to_datetime(cell).raised = "" /\ cell # ""

\* C21: a cell that spells no amount or no date never aborts the batch run:
\* the run does not end with an exception, the normalised amount of a row
\* whose Amount spells no number is zero, and once the credit-card part is
\* through, every well-formed purchase of the statement is in the export
\* file of its year.
C21_MalformedRowNeverAborts ==
    /\ pc # "raised"
    /\ \A i \in 1..Len(raw_df) :
          ~SpellsNumber(credit_csv[i].Amount) => raw_df[i].Amount_Norm = 0
    /\ pc \in {"checking", "done"} =>
          \A j \in 1..Len(credit_csv) :
             LET r == credit_csv[j]
             IN  (/\ SpellsDate(r.Transaction_Date)
                  /\ SpellsNumber(r.Amount)
                  /\ to_numeric(r.Amount) < 0
                  /\ ~AnyKeyword(PAYMENT_TERMS, Upper(r.Description)))
                 => \E n \in 1..Len(exports.yearly) :
                       /\ exports.yearly[n].year = to_datetime(r.Transaction_Date).value.year
                       /\ \E k \in 1..Len(exports.yearly[n].rows) :
                             LET x == exports.yearly[n].rows[k]
                             IN  /\ x.Clean_Description = clean_merchant_name(r.Description)
                                 /\ x.Net_Amount = -to_numeric(r.Amount)

\* C24: no spending transaction is lost between the per-year files and
\* all_transactions.csv: the combined file has as many rows as the yearly
\* files together, and the same total.
C24_CombinedKeepsEveryRow ==
    LET RECURSIVE Total(_)
        Total(rows) == IF rows = << >> THEN 0
                       ELSE Head(rows).Net_Amount + Total(Tail(rows))
        RECURSIVE Yearly(_)
        Yearly(n) == IF n = 0 THEN << >>
                     ELSE Yearly(n - 1) \o exports.yearly[n].rows
        all == Yearly(Len(exports.yearly))
    IN  /\ Len(exports.combined.rows) = Len(all)
        /\ Total(exports.combined.rows) = Total(all)

\* rule 5 of map_category gave the row its category: no override entry, no
\* bank-category fallback, no utility keyword and no generic keyword
\* matched
DefaultRuleFired(r, cmap) ==
    LET desc_lower == Lower(r.Clean_Description)
    IN  /\ <<r.Clean_Description, r.Category>> \notin DOMAIN cmap
        /\ r.Category \notin DOMAIN BANK_CATEGORY_FALLBACK
        /\ ~(r.Category = "Bills & Utilities" /\ UtilityRuleFrom(desc_lower, 1) # 0)
        /\ ~(In("gas", desc_lower) \/ In("fuel", desc_lower))
        /\ ~(In("food", desc_lower) \/ In("restaurant", desc_lower))

\* C27: the number of merchants the run reports as defaulted to 'Personal'
\* is the number of distinct (merchant, bank category) pairs of the spending
\* stream for which rule 5 fired; a pair an override entry maps to
\* 'Personal' is not counted.
C27_DefaultedCountIsRuleFive ==
    exports.defaulted =
        Cardinality({<<df_spending[i].Clean_Description, df_spending[i].Category>> :
                        i \in {k \in 1..Len(df_spending) :
                                  DefaultRuleFired(df_spending[k], category_map)}})

====
